---- MODULE Spec2Model ----
(***************************************************************************)
(* Hotel-invoice itemization engine of ez-expense (package hotel_itemizer): *)
(* HotelCategorizer, DailyRateCalculator and HotelValidator, modelled as    *)
(* one call chain over one invoice.                                         *)
(*                                                                          *)
(* Money.  The code computes with decimal.Decimal under the default         *)
(* context (ROUND_HALF_EVEN, a fixed number of significant digits).  A      *)
(* Decimal is modelled as an integer count of units, Unit units to the      *)
(* cent, and every arithmetic result is rounded half-even to DecimalPrec    *)
(* significant digits, as the decimal context does.  Line-item amounts and  *)
(* invoice totals are whole cents.                                          *)
(*                                                                          *)
(* hotel_categorizer.py imports EXCLUDE_CATEGORIES from config.py, which    *)
(* does not define it; the model takes the bodies of the methods as they    *)
(* are written.                                                             *)
(***************************************************************************)
EXTENDS Integers, Sequences, FiniteSets, TLC

(***************************************************************************)
(* Bounds of the model                                                      *)
(***************************************************************************)
\* longest line-item list of the general invoice family
MaxItems == 2
\* longest stay, in nights, of the general invoice family
MaxNights == 3
\* longest line-item list of the family of long invoices
MaxLongItems == 4
\* significant digits the modelled decimal context keeps
DecimalPrec == 5

(***************************************************************************)
(* decimal.Decimal arithmetic                                               *)
(***************************************************************************)
Abs(x) == IF x < 0 THEN -x ELSE x

Max(a, b) == IF a >= b THEN a ELSE b

RECURSIVE Pow10(_)
Pow10(n) == IF n <= 0 THEN 1 ELSE 10 * Pow10(n - 1)

\* units per cent: the finest step the model represents
Unit == Pow10(DecimalPrec)

\* a whole number of cents as a Decimal
Cents(c) == c * Unit

RECURSIVE NumDigits(_)
NumDigits(n) == IF n < 10 THEN 1 ELSE 1 + NumDigits(n \div 10)

\* n / d for n >= 0, d > 0, rounded to an integer, ties to even
RoundHalfEven(n, d) ==
    LET q == n \div d
        r == n % d
    IN  IF 2 * r > d \/ (2 * r = d /\ q % 2 = 1) THEN q + 1 ELSE q

\* n / d (d > 0) rounded half-even to DecimalPrec significant digits
DecRound(n, d) ==
    LET mag == Abs(n)
        digits == NumDigits(mag \div d)
        quantum == Pow10(Max(0, digits - DecimalPrec))
        r == RoundHalfEven(mag, d * quantum) * quantum
    IN  IF n < 0 THEN -r ELSE r

DecAdd(x, y) == DecRound(x + y, 1)

DecSub(x, y) == DecRound(x - y, 1)

\* Decimal * int
DecMul(x, k) == DecRound(x * k, 1)

\* Decimal / int, k > 0
DecDiv(x, k) == DecRound(x, k)

\* sum(...) over a sequence of Decimals: a left fold starting from 0
RECURSIVE DecSum(_)
DecSum(s) ==
    IF s = <<>> THEN 0
    ELSE DecAdd(DecSum(SubSeq(s, 1, Len(s) - 1)), s[Len(s)])

\* Decimal('0.01')
Tolerance == Cents(1)

(***************************************************************************)
(* Category taxonomy                                                        *)
(***************************************************************************)
\* Python None
None == "None"

IGNORE == "Ignore"

HotelCategoryEnum ==
    {"Daily Room Rate", "Hotel Deposit", "Hotel Tax", "Hotel Telephone",
     "Incidentals", "Laundry", "Room Service & Meals etc", "Ignore"}

DAILY_RATE_CATEGORIES == {"Daily Room Rate"}

ONE_TIME_CATEGORIES ==
    {"Hotel Deposit", "Hotel Tax", "Hotel Telephone", "Incidentals",
     "Laundry", "Room Service & Meals etc"}

(***************************************************************************)
(* Data model                                                               *)
(*   HotelLineItem        [description, amount, user_category]              *)
(*   HotelInvoiceDetails  [hotel_name, check_in_date, check_out_date,       *)
(*                         total_amount, line_items]                        *)
(*   ConsolidatedCategory [category, total_amount, daily_rate, quantity,    *)
(*                         source_items]                                    *)
(*   MSExpenseItemEntry   [subcategory, start_date, daily_rate, quantity,   *)
(*                         total_amount]                                    *)
(* Dates are day numbers.  source_items holds references to the invoice's   *)
(* line-item objects: the positions of the items in invoice.line_items.     *)
(* An error string is [msg, args]: the fixed text of the f-string and the   *)
(* values it interpolates.                                                  *)
(***************************************************************************)
Err(msg, args) == [msg |-> msg, args |-> args]

\* the amounts of a list of line items, in order
ItemAmounts(items) == [i \in 1..Len(items) |-> items[i].amount]

\* the total_amount of each record of a list, in order
TotalAmounts(records) == [i \in 1..Len(records) |-> records[i].total_amount]

\* the positions in S in list order: what a for loop over the list visits
RECURSIVE InOrder(_)
InOrder(S) ==
    IF S = {} THEN <<>>
    ELSE LET m == CHOOSE x \in S : \A y \in S : x <= y
         IN  <<m>> \o InOrder(S \ {m})

(***************************************************************************)
(* HotelValidator.validate_invoice_details                                  *)
(***************************************************************************)
\* a variant that allows the one cent of the later checks
differs_significantly_by_a_cent(total_difference, total_amount) ==
    total_difference > Tolerance

\* total_difference > invoice_details.total_amount * Decimal('0.1')
differs_significantly(total_difference, total_amount) ==
    total_difference > DecRound(total_amount, 10)

validate_invoice_details(invoice_details) ==
    LET line_items_total == DecSum(ItemAmounts(invoice_details.line_items))
        total_difference ==
            Abs(DecSub(line_items_total, invoice_details.total_amount))
        errors ==
            (IF invoice_details.hotel_name = ""
                THEN <<Err("Hotel name is required", <<>>)>> ELSE <<>>)
            \o (IF invoice_details.line_items = <<>>
                THEN <<Err("No line items found in invoice", <<>>)>> ELSE <<>>)
            \o (IF invoice_details.total_amount <= 0
                THEN <<Err("Total amount must be greater than zero", <<>>)>>
                ELSE <<>>)
            \o (IF invoice_details.check_out_date < invoice_details.check_in_date
                THEN <<Err("Check-out date cannot be before check-in date", <<>>)>>
                ELSE <<>>)
            \o (IF differs_significantly(total_difference,
                                         invoice_details.total_amount)
                THEN <<Err("Line items total differs significantly from invoice total",
                           <<line_items_total, invoice_details.total_amount>>)>>
                ELSE <<>>)
    IN  [passed |-> errors = <<>>, errors |-> errors]

(***************************************************************************)
(* HotelCategorizer.validate_categories                                     *)
(***************************************************************************)
\* a variant that adds every categorized item, ignored ones too
counts_as_assigned_with_ignored(item) == item.user_category # None

\* the branch that adds an item's amount to total_assigned
counts_as_assigned(item) ==
    item.user_category # None /\ item.user_category # IGNORE

validate_categories(invoice_details) ==
    LET items == invoice_details.line_items
        missing == InOrder({i \in 1..Len(items) : items[i].user_category = None})
        assigned == InOrder({i \in 1..Len(items) : counts_as_assigned(items[i])})
        total_assigned == DecSum([k \in 1..Len(assigned) |-> items[assigned[k]].amount])
        total_difference == Abs(DecSub(total_assigned, invoice_details.total_amount))
        errors ==
            [k \in 1..Len(missing) |->
                Err("No category assigned for: ", <<items[missing[k]].description>>)]
            \o (IF total_difference > Tolerance
                THEN <<Err("Total assigned does not match invoice total",
                           <<total_assigned, invoice_details.total_amount,
                             total_difference>>)>>
                ELSE <<>>)
    IN  [validation_passed |-> errors = <<>>,
         total_assigned |-> total_assigned,
         total_original |-> invoice_details.total_amount,
         errors |-> errors]

(***************************************************************************)
(* HotelValidator.validate_categorization                                   *)
(***************************************************************************)
\* a variant that lists every uncategorized item
listed_uncategorized_all(uncategorized_items) == uncategorized_items

\* uncategorized_items[:3]
listed_uncategorized(uncategorized_items) ==
    SubSeq(uncategorized_items, 1,
           IF Len(uncategorized_items) < 3 THEN Len(uncategorized_items) ELSE 3)

validate_categorization(invoice_details) ==
    LET items == invoice_details.line_items
        n == Len(items)
        uncat == InOrder({i \in 1..n : items[i].user_category = None})
        uncategorized_items == [k \in 1..Len(uncat) |-> items[uncat[k]].description]
        ign == InOrder({i \in 1..n : items[i].user_category = IGNORE})
        cat == InOrder({i \in 1..n : items[i].user_category \notin {None, IGNORE}})
        ignored_total == DecSum([k \in 1..Len(ign) |-> items[ign[k]].amount])
        categorized_total == DecSum([k \in 1..Len(cat) |-> items[cat[k]].amount])
        expected_total == DecAdd(categorized_total, ignored_total)
        total_difference == Abs(DecSub(expected_total, invoice_details.total_amount))
        first3 == listed_uncategorized(uncategorized_items)
        errors ==
            (IF uncategorized_items # <<>>
                THEN <<Err("Uncategorized items: ", <<first3>>)>>
                     \o (IF Len(uncategorized_items) > 3
                         THEN <<Err("... and N more items",
                                    <<Len(uncategorized_items) - 3>>)>>
                         ELSE <<>>)
                ELSE <<>>)
            \o (IF total_difference > Tolerance
                THEN <<Err("Categorized total plus ignored items does not match invoice total",
                           <<categorized_total, ignored_total,
                             invoice_details.total_amount>>)>>
                ELSE <<>>)
            \o (IF categorized_total = 0 /\ ignored_total > 0
                THEN <<Err("All items are marked as 'Ignore' - at least some items should be categorized",
                           <<>>)>>
                ELSE <<>>)
    IN  [passed |-> errors = <<>>, errors |-> errors]

(***************************************************************************)
(* HotelCategorizer.consolidate_categories                                  *)
(***************************************************************************)
\* category_groups: a dict keyed by category, so one group per category in
\* the order in which the categories first appear among the line items;
\* each group lists its items in line-item order
\* a variant that groups ignored items as well
is_grouped_with_ignored(item) == item.user_category # None

\* the test an item passes to enter a group
is_grouped(item) == item.user_category # None /\ item.user_category # IGNORE

\* a variant in which a later item replaces the group instead of joining it
group_members_last_only(items, category) ==
    LET all == InOrder({i \in 1..Len(items) : items[i].user_category = category})
    IN  <<all[Len(all)]>>

\* a variant in which the group keeps only the item that opened it
group_members_first_only(items, category) ==
    LET all == InOrder({i \in 1..Len(items) : items[i].user_category = category})
    IN  <<all[1]>>

\* the items appended to the group of a category, in line-item order
group_members(items, category) ==
    InOrder({i \in 1..Len(items) : items[i].user_category = category})

\* a variant that returns the groups in the order of the enum
category_groups_in_enum_order(items) ==
    LET order == <<"Daily Room Rate", "Hotel Deposit", "Hotel Tax", "Hotel Telephone",
                   "Incidentals", "Laundry", "Room Service & Meals etc">>
        present == InOrder({c \in 1..Len(order) :
                       \E i \in 1..Len(items) :
                           is_grouped(items[i]) /\ items[i].user_category = order[c]})
    IN  [k \in 1..Len(present) |->
            [category |-> order[present[k]],
             items |-> group_members(items, order[present[k]])]]

category_groups(items) ==
    LET n == Len(items)
        first == InOrder({i \in 1..n :
                     /\ is_grouped(items[i])
                     /\ \A j \in 1..(i - 1) :
                            items[j].user_category # items[i].user_category})
    IN  [k \in 1..Len(first) |->
            [category |-> items[first[k]].user_category,
             items |-> group_members(items, items[first[k]].user_category)]]

\* the nights consolidate_categories computes
consolidate_nights(invoice_details) ==
    LET nights == invoice_details.check_out_date - invoice_details.check_in_date
    IN  IF nights <= 0 THEN 1 ELSE nights

consolidate_categories(invoice_details) ==
    LET groups == category_groups(invoice_details.line_items)
        nights == consolidate_nights(invoice_details)
    IN  [k \in 1..Len(groups) |->
            LET category == groups[k].category
                items == groups[k].items
                total_amount ==
                    DecSum([m \in 1..Len(items) |->
                               invoice_details.line_items[items[m]].amount])
                is_daily == category \in DAILY_RATE_CATEGORIES
            IN  [category |-> category,
                 total_amount |-> total_amount,
                 daily_rate |-> IF is_daily THEN DecDiv(total_amount, nights)
                                            ELSE total_amount,
                 quantity |-> IF is_daily THEN nights ELSE 1,
                 source_items |-> items]]

(***************************************************************************)
(* DailyRateCalculator                                                      *)
(***************************************************************************)
\* a variant without the minimum of one night
calculate_nights_unclamped(check_in, check_out) == check_out - check_in

calculate_nights(check_in, check_out) == Max(1, check_out - check_in)

\* MSExpenseItemEntry(daily_rate=None, ...) raises a ValidationError: the
\* field is a required Decimal, while ConsolidatedCategory.daily_rate is
\* Optional and is absent from the record when it is None
entry_is_rejected(category) == "daily_rate" \notin DOMAIN category

calculate_daily_rates(consolidated_categories, check_in, check_out) ==
    LET kept == InOrder({i \in 1..Len(consolidated_categories) :
                            consolidated_categories[i].category # IGNORE})
    IN  IF \E k \in 1..Len(kept) : entry_is_rejected(consolidated_categories[kept[k]])
            \* except Exception: return []
            THEN <<>>
            ELSE [k \in 1..Len(kept) |->
                    LET category == consolidated_categories[kept[k]]
                    IN  [subcategory |-> category.category,
                         start_date |-> check_in,
                         daily_rate |-> category.daily_rate,
                         quantity |-> category.quantity,
                         total_amount |-> category.total_amount]]

\* the (validation_passed, calculated_total, errors) that
\* validate_daily_rate_totals returns
validate_daily_rate_totals(ms_expense_entries, original_total) ==
    LET calculated_total == DecSum(TotalAmounts(ms_expense_entries))
        difference == Abs(DecSub(calculated_total, original_total))
        validation_passed == difference <= Tolerance
        errors == IF ~validation_passed
                      THEN <<Err("Daily rate totals do not match original expense",
                                 <<calculated_total, original_total, difference>>)>>
                      ELSE <<>>
    IN  [passed |-> validation_passed,
         calculated_total |-> calculated_total,
         errors |-> errors]

\* a variant that takes the last index holding the largest total
largest_entry_index_last(entries) ==
    CHOOSE i \in 1..Len(entries) :
        /\ \A j \in 1..Len(entries) : entries[j].total_amount <= entries[i].total_amount
        /\ \A j \in (i + 1)..Len(entries) : entries[j].total_amount < entries[i].total_amount

\* max(range(len(entries)), key=...): the first index holding the largest total
largest_entry_index(entries) ==
    CHOOSE i \in 1..Len(entries) :
        /\ \A j \in 1..Len(entries) : entries[j].total_amount <= entries[i].total_amount
        /\ \A j \in 1..(i - 1) : entries[j].total_amount < entries[i].total_amount

\* a variant that moves the total and keeps the old daily rate
adjusted_entry_stale_rate(largest_entry, difference) ==
    [largest_entry EXCEPT !.total_amount = DecAdd(largest_entry.total_amount, difference)]

\* a variant that adds the difference to the daily rate and derives the total
adjusted_entry_by_rate(largest_entry, difference) ==
    LET new_daily_rate == DecAdd(largest_entry.daily_rate, difference)
    IN  [subcategory |-> largest_entry.subcategory,
         start_date |-> largest_entry.start_date,
         daily_rate |-> new_daily_rate,
         quantity |-> largest_entry.quantity,
         total_amount |-> DecMul(new_daily_rate, largest_entry.quantity)]

\* the entry that replaces the largest one
adjusted_entry(largest_entry, difference) ==
    LET new_total == DecAdd(largest_entry.total_amount, difference)
        new_daily_rate == IF largest_entry.quantity > 0
                              THEN DecDiv(new_total, largest_entry.quantity)
                              ELSE new_total
    IN  [subcategory |-> largest_entry.subcategory,
         start_date |-> largest_entry.start_date,
         daily_rate |-> new_daily_rate,
         quantity |-> largest_entry.quantity,
         total_amount |-> new_total]

\* the guard under which adjust_for_rounding returns its input as it is
negligible(difference) == Abs(difference) <= Tolerance

\* a variant in which adjusted_entries names the list that was passed in
same_list(passed_list) ==
    [lists |-> [passed |-> passed_list, copy |-> passed_list],
     adjusted_entries |-> "passed"]

\* adjusted_entries = ms_expense_entries.copy(): the list objects of the call,
\* and the one that adjusted_entries names
copied_list(passed_list) ==
    [lists |-> [passed |-> passed_list, copy |-> passed_list],
     adjusted_entries |-> "copy"]

\* a call of adjust_for_rounding: the list it returns, and what the list that
\* was passed in holds when it returns
adjust_for_rounding_objects(ms_expense_entries, target_total) ==
    IF ms_expense_entries = <<>>
        THEN [passed |-> ms_expense_entries, returned |-> ms_expense_entries]
    ELSE
        LET current_total == DecSum(TotalAmounts(ms_expense_entries))
            difference == DecSub(target_total, current_total)
        IN  IF negligible(difference)
                THEN [passed |-> ms_expense_entries, returned |-> ms_expense_entries]
            ELSE
                LET objects == copied_list(ms_expense_entries)
                    name == objects.adjusted_entries
                    i == largest_entry_index(objects.lists[name])
                    \* adjusted_entries[largest_entry_index] = MSExpenseItemEntry(...)
                    assigned == [objects.lists EXCEPT
                                    ![name][i] = adjusted_entry(@, difference)]
                IN  [passed |-> assigned.passed, returned |-> assigned[name]]

adjust_for_rounding(ms_expense_entries, target_total) ==
    adjust_for_rounding_objects(ms_expense_entries, target_total).returned

(***************************************************************************)
(* HotelValidator.create_itemization_result                                 *)
(***************************************************************************)
create_itemization_result(invoice_details, consolidated_categories) ==
    LET total_itemized == DecSum(TotalAmounts(consolidated_categories))
        total_original == invoice_details.total_amount
        nights == Max(1, invoice_details.check_out_date
                             - invoice_details.check_in_date)
    IN  [invoice_details |-> invoice_details,
         consolidated_categories |-> consolidated_categories,
         total_itemized |-> total_itemized,
         total_original |-> total_original,
         validation_passed |->
             Abs(DecSub(total_itemized, total_original)) <= Tolerance,
         number_of_nights |-> nights]

(***************************************************************************)
(* HotelValidator.validate_consolidation                                    *)
(***************************************************************************)
\* the concatenation of a sequence of sequences, in order
RECURSIVE Flatten(_)
Flatten(seqs) ==
    IF seqs = <<>> THEN <<>>
    ELSE Flatten(SubSeq(seqs, 1, Len(seqs) - 1)) \o seqs[Len(seqs)]

\* category.daily_rate * category.quantity raises a TypeError when the
\* daily_rate is None; the multiplication is reached only under the guard
\* category.quantity > 0
rate_check_raises(category) ==
    category.quantity > 0 /\ "daily_rate" \notin DOMAIN category

\* a variant whose except clause returns no error
consolidation_exception_report_silent(e) == [passed |-> FALSE, errors |-> <<>>]

\* except Exception as e: return False, [f"Consolidation validation error: ..."]
consolidation_exception_report(e) ==
    [passed |-> FALSE, errors |-> <<Err("Consolidation validation error: ", <<e>>)>>]

\* a variant without the check of the category total
category_errors_without_total_check(category) ==
    (IF category.quantity > 0
           /\ Abs(DecSub(DecMul(category.daily_rate, category.quantity),
                         category.total_amount)) > Tolerance
        THEN <<Err("Category daily rate calculation error",
                   <<category.category, category.daily_rate, category.quantity,
                     category.total_amount>>)>>
        ELSE <<>>)
    \o (IF category.source_items = <<>>
        THEN <<Err("Category has no source items", <<category.category>>)>>
        ELSE <<>>)

\* the errors the loop appends for one category
category_errors(category) ==
    (IF category.total_amount <= 0
        THEN <<Err("Category has invalid total",
                   <<category.category, category.total_amount>>)>>
        ELSE <<>>)
    \o (IF category.quantity > 0
           /\ Abs(DecSub(DecMul(category.daily_rate, category.quantity),
                         category.total_amount)) > Tolerance
        THEN <<Err("Category daily rate calculation error",
                   <<category.category, category.daily_rate, category.quantity,
                     category.total_amount>>)>>
        ELSE <<>>)
    \o (IF category.source_items = <<>>
        THEN <<Err("Category has no source items", <<category.category>>)>>
        ELSE <<>>)

validate_consolidation(consolidated_categories, original_total) ==
    IF consolidated_categories = <<>>
        THEN [passed |-> FALSE, errors |-> <<Err("No categories to consolidate", <<>>)>>]
    ELSE IF \E k \in 1..Len(consolidated_categories) :
                rate_check_raises(consolidated_categories[k])
        THEN consolidation_exception_report("TypeError")
    ELSE
        LET total_consolidated == DecSum(TotalAmounts(consolidated_categories))
            total_difference == Abs(DecSub(total_consolidated, original_total))
            errors ==
                (IF total_difference > Tolerance
                    THEN <<Err("Consolidated total does not match original total",
                               <<total_consolidated, original_total,
                                 total_difference>>)>>
                    ELSE <<>>)
                \o Flatten([k \in 1..Len(consolidated_categories) |->
                               category_errors(consolidated_categories[k])])
        IN  [passed |-> Len(errors) = 0, errors |-> errors]

(***************************************************************************)
(* HotelValidator.validate_ms_expense_entries                               *)
(***************************************************************************)
\* a variant without the quantity check
entry_errors_without_quantity_check(entry) ==
    (IF entry.daily_rate <= 0
        THEN <<Err("Invalid daily rate", <<entry.subcategory, entry.daily_rate>>)>>
        ELSE <<>>)
    \o (IF Abs(DecSub(DecMul(entry.daily_rate, entry.quantity),
                      entry.total_amount)) > Tolerance
        THEN <<Err("Calculation error",
                   <<entry.subcategory, entry.daily_rate, entry.quantity,
                     entry.total_amount>>)>>
        ELSE <<>>)

\* the errors the loop appends for one entry
entry_errors(entry) ==
    (IF entry.daily_rate <= 0
        THEN <<Err("Invalid daily rate", <<entry.subcategory, entry.daily_rate>>)>>
        ELSE <<>>)
    \o (IF entry.quantity <= 0
        THEN <<Err("Invalid quantity", <<entry.subcategory, entry.quantity>>)>>
        ELSE <<>>)
    \o (IF Abs(DecSub(DecMul(entry.daily_rate, entry.quantity),
                      entry.total_amount)) > Tolerance
        THEN <<Err("Calculation error",
                   <<entry.subcategory, entry.daily_rate, entry.quantity,
                     entry.total_amount>>)>>
        ELSE <<>>)

validate_ms_expense_entries(ms_expense_entries, original_total) ==
    IF ms_expense_entries = <<>>
        THEN [passed |-> FALSE,
              errors |-> <<Err("No MS Expense entries to validate", <<>>)>>]
    ELSE
        LET entries_total == DecSum(TotalAmounts(ms_expense_entries))
            total_difference == Abs(DecSub(entries_total, original_total))
            errors ==
                (IF total_difference > Tolerance
                    THEN <<Err("MS Expense entries total does not match original expense",
                               <<entries_total, original_total, total_difference>>)>>
                    ELSE <<>>)
                \o Flatten([k \in 1..Len(ms_expense_entries) |->
                               entry_errors(ms_expense_entries[k])])
        IN  [passed |-> Len(errors) = 0, errors |-> errors]

(***************************************************************************)
(* Inputs: the invoices handed to the engine                                *)
(***************************************************************************)
\* all sequences over S of length at most n
SeqsUpTo(S, n) == UNION {[1..k -> S] : k \in 0..n}

Invoice(name, check_in, stay, total, items) ==
    [hotel_name |-> name,
     check_in_date |-> check_in,
     check_out_date |-> check_in + stay,
     total_amount |-> total,
     line_items |-> items]

\* short invoices over every kind of assignment (none, Ignore, the recurring
\* category, a one-time category), with totals that the line items match
\* exactly, miss by one cent, or miss by more; stays from an inverted range
\* to MaxNights nights
GeneralItems ==
    [description : {"Room charge"},
     amount : {Cents(0), Cents(1), Cents(10)},
     user_category : {None, IGNORE, "Daily Room Rate", "Hotel Tax"}]

GeneralInvoices ==
    {Invoice("Grand Plaza Hotel", 10, stay, total, items) :
        stay \in (-1)..MaxNights,
        total \in {Cents(10), Cents(11)},
        items \in SeqsUpTo(GeneralItems, MaxItems)}

\* longer invoices of one-cent items with two descriptions, each item
\* uncategorized, ignored or a one-time charge
LongItems ==
    [description : {"Minibar", "Parking"},
     amount : {Cents(1)},
     user_category : {None, IGNORE, "Incidentals"}]

LongInvoices ==
    {Invoice("Grand Plaza Hotel", 20, 2, Cents(2), items) :
        items \in SeqsUpTo(LongItems, MaxLongItems)}

\* structurally invalid invoices: no hotel name, no items, zero total
InvalidInvoices ==
    {Invoice(name, 10, stay, total, items) :
        name \in {"", "Grand Plaza Hotel"},
        stay \in {-1, 1},
        total \in {Cents(0), Cents(10)},
        items \in {<<>>,
                   <<[description |-> "Room charge", amount |-> Cents(10),
                      user_category |-> "Daily Room Rate"]>>}}

\* invoices whose single line item misses the total by 10% or by a little
\* more or less
LooseInvoices ==
    {Invoice("Grand Plaza Hotel", 10, stay, Cents(20),
             <<[description |-> "Room charge", amount |-> amount,
                user_category |-> "Daily Room Rate"]>>) :
        stay \in {0, 1},
        amount \in {Cents(17), Cents(18), Cents(19), Cents(22), Cents(23)}}

Invoices == GeneralInvoices \cup LongInvoices \cup InvalidInvoices \cup LooseInvoices

(***************************************************************************)
(* Inputs: drafts handed to a later stage directly                          *)
(***************************************************************************)
\* longest list of draft entries
MaxDraftEntries == 2
\* longest list of draft categories
MaxDraftCategories == 2

\* MSExpenseItemEntry values a caller builds itself: each of a non-positive
\* daily rate, a zero quantity and a total that is not rate times quantity,
\* alone and combined
DraftEntries ==
    [subcategory : {"Daily Room Rate"},
     start_date : {10},
     daily_rate : {Cents(0), Cents(5)},
     quantity : {0, 2},
     total_amount : {Cents(0), Cents(9), Cents(10)}]

\* ConsolidatedCategory values a caller builds itself, as the /itemize route
\* does; daily_rate is optional and the route leaves it out
DraftCategories ==
    [category : {"Daily Room Rate"},
     total_amount : {Cents(0), Cents(10), Cents(20)},
     daily_rate : {Cents(5)},
     quantity : {0, 2},
     source_items : {<<>>, <<1>>}]
    \cup
    [category : {"Daily Room Rate"},
     total_amount : {Cents(10)},
     quantity : {0, 2},
     source_items : {<<>>, <<1>>}]

\* the invoices the drafts belong to: one line item, categorized or not,
\* that makes up the invoice total
DraftInvoices ==
    {Invoice("Grand Plaza Hotel", 10, 2, total,
             <<[description |-> "Room charge", amount |-> total,
                user_category |-> category]>>) :
        total \in {Cents(0), Cents(10), Cents(20)},
        category \in {None, "Daily Room Rate"}}

\* the invoices two callers process at the same time
ConcurrentInvoices ==
    {Invoice("Grand Plaza Hotel", 10, 3, Cents(10), items) :
        items \in {<<[description |-> "Room charge", amount |-> Cents(10),
                      user_category |-> "Daily Room Rate"]>>,
                   <<[description |-> "Room charge", amount |-> Cents(1),
                      user_category |-> "Hotel Tax"],
                     [description |-> "Room charge", amount |-> Cents(10),
                      user_category |-> None]>>,
                   <<>>}}

\* the callers
Callers == {1, 2}

(***************************************************************************)
(* State: one invoice and what each stage returned for it                   *)
(***************************************************************************)
VARIABLES
    pc,                     \* the stage the call chain has reached
    invoice,                \* the HotelInvoiceDetails being processed
    invoice_report,         \* validate_invoice_details: (is_valid, errors)
    categories_report,      \* validate_categories: the returned dict
    categorization_report,  \* validate_categorization: (is_valid, errors)
    consolidated,           \* consolidate_categories: [ConsolidatedCategory]
    consolidation_report,   \* validate_consolidation: (is_valid, errors)
    nights,                 \* calculate_nights, as calculate_daily_rates calls it
    ms_expense_entries,     \* calculate_daily_rates: [MSExpenseItemEntry]
    totals_report,          \* validate_daily_rate_totals: (passed, total, errors)
    adjusted_entries,       \* adjust_for_rounding: [MSExpenseItemEntry]
    entries_report,         \* validate_ms_expense_entries: (is_valid, errors)
    result,                 \* create_itemization_result: HotelItemizationResult
    rerun_entries,          \* adjust_for_rounding on its own output
    rerun_report,           \* validate_ms_expense_entries on the re-run
    calls,                  \* per caller, the call chain of its own invoice
    engine,                 \* the attributes the engine's objects hold
    matching,               \* match_receipts_with_expenses: arguments, outcome
    suggestion,             \* suggest_category_for_description: argument, result
    _playwright_instance,   \* playwright_manager: the Playwright instance
    _browser_connection,    \* playwright_manager: the browser connection
    _current_page,          \* playwright_manager: the current page
    manager_call            \* playwright_manager: the last call and its outcome

chain_vars ==
    <<pc, invoice, invoice_report, categories_report, categorization_report,
      consolidated, consolidation_report, nights, ms_expense_entries,
      totals_report, adjusted_entries, entries_report, result, rerun_entries,
      rerun_report>>

concurrent_vars == <<calls, engine>>

manager_vars ==
    <<_playwright_instance, _browser_connection, _current_page, manager_call>>

service_vars == <<matching, suggestion, manager_vars>>

vars == <<chain_vars, concurrent_vars, service_vars>>

NoReport == [passed |-> FALSE, errors |-> <<>>]

NoCategoriesReport ==
    [validation_passed |-> FALSE, total_assigned |-> 0, total_original |-> 0,
     errors |-> <<>>]

NoTotalsReport == [passed |-> FALSE, calculated_total |-> 0, errors |-> <<>>]

NoResult(inv) ==
    [invoice_details |-> inv, consolidated_categories |-> <<>>,
     total_itemized |-> 0, total_original |-> 0, validation_passed |-> FALSE,
     number_of_nights |-> 0]

\* HotelCategorizer.__init__, DailyRateCalculator.__init__ and
\* HotelValidator.__init__ set no attribute
NoAttributes == {}

\* nothing has been returned yet
NothingReturned ==
    /\ invoice_report = NoReport
    /\ categories_report = NoCategoriesReport
    /\ categorization_report = NoReport
    /\ consolidation_report = NoReport
    /\ nights = 0
    /\ totals_report = NoTotalsReport
    /\ entries_report = NoReport
    /\ result = NoResult(invoice)
    /\ rerun_entries = <<>>
    /\ rerun_report = NoReport

\* match_receipts_with_expenses and suggest_category_for_description have not
\* been called
NoMatching == [called |-> FALSE]

NoSuggestion == [called |-> FALSE]

\* playwright_manager as imported: the three module globals are None
NoHandle == 0

NoManagerCall == [name |-> "import", raised |-> FALSE]

ManagerImported ==
    /\ _playwright_instance = NoHandle
    /\ _browser_connection = NoHandle
    /\ _current_page = NoHandle
    /\ manager_call = NoManagerCall

ServicesIdle ==
    /\ matching = NoMatching
    /\ suggestion = NoSuggestion
    /\ ManagerImported

Init ==
    /\ invoice \in Invoices
    /\ pc = "Extracted"
    /\ consolidated = <<>>
    /\ ms_expense_entries = <<>>
    /\ adjusted_entries = <<>>
    /\ NothingReturned
    /\ calls = <<>>
    /\ engine = NoAttributes
    /\ ServicesIdle

\* the stages of the call chain, in order
Stages ==
    <<"Extracted", "InvoiceValidated", "CategoriesValidated", "Categorized",
      "Consolidated", "ConsolidationValidated", "Rated", "TotalsValidated",
      "RateAdjusted", "EntriesValidated", "Finalized", "Rerun">>

StageIndex(s) == CHOOSE i \in 1..Len(Stages) : Stages[i] = s

\* the call chain has completed the stage s
Reached(s) == StageIndex(pc) >= StageIndex(s)

(***************************************************************************)
(* The call chain.  No stage refuses an invoice that an earlier check       *)
(* failed: the functions take the invoice as it is, and the reports are     *)
(* only returned.                                                           *)
(***************************************************************************)
ValidateInvoiceDetails ==
    /\ pc = "Extracted"
    /\ invoice_report' = validate_invoice_details(invoice)
    /\ pc' = "InvoiceValidated"
    /\ UNCHANGED <<invoice, categories_report, categorization_report, consolidated,
                   consolidation_report, nights, ms_expense_entries, totals_report,
                   adjusted_entries, entries_report, result, rerun_entries,
                   rerun_report, concurrent_vars, service_vars>>

ValidateCategories ==
    /\ pc = "InvoiceValidated"
    /\ categories_report' = validate_categories(invoice)
    /\ pc' = "CategoriesValidated"
    /\ UNCHANGED <<invoice, invoice_report, categorization_report, consolidated,
                   consolidation_report, nights, ms_expense_entries, totals_report,
                   adjusted_entries, entries_report, result, rerun_entries,
                   rerun_report, concurrent_vars, service_vars>>

ValidateCategorization ==
    /\ pc = "CategoriesValidated"
    /\ categorization_report' = validate_categorization(invoice)
    /\ pc' = "Categorized"
    /\ UNCHANGED <<invoice, invoice_report, categories_report, consolidated,
                   consolidation_report, nights, ms_expense_entries, totals_report,
                   adjusted_entries, entries_report, result, rerun_entries,
                   rerun_report, concurrent_vars, service_vars>>

ConsolidateCategories ==
    /\ pc = "Categorized"
    /\ consolidated' = consolidate_categories(invoice)
    /\ pc' = "Consolidated"
    /\ UNCHANGED <<invoice, invoice_report, categories_report, categorization_report,
                   consolidation_report, nights, ms_expense_entries, totals_report,
                   adjusted_entries, entries_report, result, rerun_entries,
                   rerun_report, concurrent_vars, service_vars>>

ValidateConsolidation ==
    /\ pc = "Consolidated"
    /\ consolidation_report' = validate_consolidation(consolidated, invoice.total_amount)
    /\ pc' = "ConsolidationValidated"
    /\ UNCHANGED <<invoice, invoice_report, categories_report, categorization_report,
                   consolidated, nights, ms_expense_entries, totals_report,
                   adjusted_entries, entries_report, result, rerun_entries,
                   rerun_report, concurrent_vars, service_vars>>

CalculateDailyRates ==
    /\ pc = "ConsolidationValidated"
    /\ nights' = calculate_nights(invoice.check_in_date, invoice.check_out_date)
    /\ ms_expense_entries' =
           calculate_daily_rates(consolidated, invoice.check_in_date,
                                 invoice.check_out_date)
    /\ pc' = "Rated"
    /\ UNCHANGED <<invoice, invoice_report, categories_report, categorization_report,
                   consolidated, consolidation_report, totals_report,
                   adjusted_entries, entries_report, result, rerun_entries,
                   rerun_report, concurrent_vars, service_vars>>

ValidateDailyRateTotals ==
    /\ pc = "Rated"
    /\ totals_report' = validate_daily_rate_totals(ms_expense_entries,
                                                   invoice.total_amount)
    /\ pc' = "TotalsValidated"
    /\ UNCHANGED <<invoice, invoice_report, categories_report, categorization_report,
                   consolidated, consolidation_report, nights, ms_expense_entries,
                   adjusted_entries, entries_report, result, rerun_entries,
                   rerun_report, concurrent_vars, service_vars>>

AdjustForRounding ==
    /\ pc = "TotalsValidated"
    /\ LET call == adjust_for_rounding_objects(ms_expense_entries, invoice.total_amount)
       IN  /\ adjusted_entries' = call.returned
           /\ ms_expense_entries' = call.passed
    /\ pc' = "RateAdjusted"
    /\ UNCHANGED <<invoice, invoice_report, categories_report, categorization_report,
                   consolidated, consolidation_report, nights,
                   totals_report, entries_report, result, rerun_entries,
                   rerun_report, concurrent_vars, service_vars>>

ValidateMsExpenseEntries ==
    /\ pc = "RateAdjusted"
    /\ entries_report' = validate_ms_expense_entries(adjusted_entries,
                                                     invoice.total_amount)
    /\ pc' = "EntriesValidated"
    /\ UNCHANGED <<invoice, invoice_report, categories_report, categorization_report,
                   consolidated, consolidation_report, nights, ms_expense_entries,
                   totals_report, adjusted_entries, result, rerun_entries,
                   rerun_report, concurrent_vars, service_vars>>

CreateItemizationResult ==
    /\ pc = "EntriesValidated"
    /\ result' = create_itemization_result(invoice, consolidated)
    /\ pc' = "Finalized"
    /\ UNCHANGED <<invoice, invoice_report, categories_report, categorization_report,
                   consolidated, consolidation_report, nights, ms_expense_entries,
                   totals_report, adjusted_entries, entries_report, rerun_entries,
                   rerun_report, concurrent_vars, service_vars>>

\* the caller runs the last two steps again, on the entries they returned
Rerun ==
    /\ pc = "Finalized"
    /\ LET call == adjust_for_rounding_objects(adjusted_entries, invoice.total_amount)
       IN  /\ rerun_entries' = call.returned
           /\ adjusted_entries' = call.passed
    /\ rerun_report' = validate_ms_expense_entries(rerun_entries', invoice.total_amount)
    /\ pc' = "Rerun"
    /\ UNCHANGED <<invoice, invoice_report, categories_report, categorization_report,
                   consolidated, consolidation_report, nights, ms_expense_entries,
                   totals_report, entries_report, result,
                   concurrent_vars, service_vars>>

Next ==
    \/ ValidateInvoiceDetails
    \/ ValidateCategories
    \/ ValidateCategorization
    \/ ConsolidateCategories
    \/ ValidateConsolidation
    \/ CalculateDailyRates
    \/ ValidateDailyRateTotals
    \/ AdjustForRounding
    \/ ValidateMsExpenseEntries
    \/ CreateItemizationResult
    \/ Rerun

Spec == Init /\ [][Next]_vars

(***************************************************************************)
(* Drafts.  The stages take any list of the right records, so a caller may  *)
(* hand a later stage categories or entries it built itself in place of     *)
(* what the earlier stage returned, as the /itemize route does with the     *)
(* categories of its request.  One stage's output is replaced per chain.    *)
(***************************************************************************)
\* the chain holds what the stages returned for its invoice
NothingSupplied ==
    /\ consolidated = consolidate_categories(invoice)
    /\ Reached("Rated") =>
           ms_expense_entries =
               calculate_daily_rates(consolidated, invoice.check_in_date,
                                     invoice.check_out_date)

InitDrafts ==
    /\ invoice \in DraftInvoices
    /\ pc = "Extracted"
    /\ consolidated = <<>>
    /\ ms_expense_entries = <<>>
    /\ adjusted_entries = <<>>
    /\ NothingReturned
    /\ calls = <<>>
    /\ engine = NoAttributes
    /\ ServicesIdle

\* categories built by the caller, in place of consolidate_categories
SupplyCategories ==
    /\ pc = "Categorized"
    /\ consolidated' \in SeqsUpTo(DraftCategories, MaxDraftCategories)
    /\ pc' = "Consolidated"
    /\ UNCHANGED <<invoice, invoice_report, categories_report, categorization_report,
                   consolidation_report, nights, ms_expense_entries, totals_report,
                   adjusted_entries, entries_report, result, rerun_entries,
                   rerun_report, concurrent_vars, service_vars>>

\* entries built by the caller, in place of calculate_daily_rates
SupplyEntries ==
    /\ pc = "ConsolidationValidated"
    /\ NothingSupplied
    /\ ms_expense_entries' \in SeqsUpTo(DraftEntries, MaxDraftEntries)
    /\ pc' = "Rated"
    /\ UNCHANGED <<invoice, invoice_report, categories_report, categorization_report,
                   consolidated, consolidation_report, nights, totals_report,
                   adjusted_entries, entries_report, result, rerun_entries,
                   rerun_report, concurrent_vars, service_vars>>

\* entries handed straight to validate_ms_expense_entries
SupplyEntriesToValidator ==
    /\ pc = "TotalsValidated"
    /\ NothingSupplied
    /\ adjusted_entries' \in SeqsUpTo(DraftEntries, MaxDraftEntries)
    /\ pc' = "RateAdjusted"
    /\ UNCHANGED <<invoice, invoice_report, categories_report, categorization_report,
                   consolidated, consolidation_report, nights, ms_expense_entries,
                   totals_report, entries_report, result, rerun_entries,
                   rerun_report, concurrent_vars, service_vars>>

NextDrafts ==
    \/ ValidateInvoiceDetails
    \/ ValidateCategories
    \/ ValidateCategorization
    \/ ConsolidateCategories
    \/ SupplyCategories
    \/ ValidateConsolidation
    \/ CalculateDailyRates
    \/ SupplyEntries
    \/ ValidateDailyRateTotals
    \/ AdjustForRounding
    \/ SupplyEntriesToValidator
    \/ ValidateMsExpenseEntries
    \/ CreateItemizationResult
    \/ Rerun

SpecDrafts == InitDrafts /\ [][NextDrafts]_vars

(***************************************************************************)
(* Two callers.  Each caller runs the call chain of its own invoice on the  *)
(* same HotelCategorizer, DailyRateCalculator and HotelValidator objects,   *)
(* one method call at a time, in any interleaving.                          *)
(***************************************************************************)
\* the call chain of an invoice before its first call
new_call(inv) ==
    [pc |-> "Extracted",
     invoice |-> inv,
     invoice_report |-> NoReport,
     categories_report |-> NoCategoriesReport,
     categorization_report |-> NoReport,
     consolidated |-> <<>>,
     consolidation_report |-> NoReport,
     ms_expense_entries |-> <<>>,
     totals_report |-> NoTotalsReport,
     adjusted_entries |-> <<>>,
     entries_report |-> NoReport,
     result |-> NoResult(inv)]

\* the next method call of a chain c on the invoice inv
next_call(c, inv) ==
    CASE c.pc = "Extracted" ->
            [c EXCEPT !.pc = "InvoiceValidated",
                      !.invoice_report = validate_invoice_details(inv)]
      [] c.pc = "InvoiceValidated" ->
            [c EXCEPT !.pc = "CategoriesValidated",
                      !.categories_report = validate_categories(inv)]
      [] c.pc = "CategoriesValidated" ->
            [c EXCEPT !.pc = "Categorized",
                      !.categorization_report = validate_categorization(inv)]
      [] c.pc = "Categorized" ->
            [c EXCEPT !.pc = "Consolidated",
                      !.consolidated = consolidate_categories(inv)]
      [] c.pc = "Consolidated" ->
            [c EXCEPT !.pc = "ConsolidationValidated",
                      !.consolidation_report =
                          validate_consolidation(c.consolidated, inv.total_amount)]
      [] c.pc = "ConsolidationValidated" ->
            [c EXCEPT !.pc = "Rated",
                      !.ms_expense_entries =
                          calculate_daily_rates(c.consolidated, inv.check_in_date,
                                                inv.check_out_date)]
      [] c.pc = "Rated" ->
            [c EXCEPT !.pc = "TotalsValidated",
                      !.totals_report =
                          validate_daily_rate_totals(c.ms_expense_entries,
                                                     inv.total_amount)]
      [] c.pc = "TotalsValidated" ->
            [c EXCEPT !.pc = "RateAdjusted",
                      !.adjusted_entries =
                          adjust_for_rounding(c.ms_expense_entries, inv.total_amount)]
      [] c.pc = "RateAdjusted" ->
            [c EXCEPT !.pc = "EntriesValidated",
                      !.entries_report =
                          validate_ms_expense_entries(c.adjusted_entries,
                                                      inv.total_amount)]
      [] c.pc = "EntriesValidated" ->
            [c EXCEPT !.pc = "Finalized",
                      !.result = create_itemization_result(inv, c.consolidated)]

\* a variant in which the objects keep the first invoice they were given and
\* work on it in every later call
method_call_remembering(attributes, c) ==
    LET inv == IF attributes = {} THEN c.invoice ELSE CHOOSE x \in attributes : TRUE
    IN  [attributes |-> {inv}, returned |-> next_call(c, inv)]

\* one method call: the attributes the objects hold afterwards and what the
\* chain holds after the return.  No method of the three classes reads or
\* assigns an attribute of self.
method_call(attributes, c) ==
    [attributes |-> attributes, returned |-> next_call(c, c.invoice)]

InitConcurrent ==
    /\ calls \in [Callers -> {new_call(inv) : inv \in ConcurrentInvoices}]
    /\ engine = NoAttributes
    /\ ServicesIdle
    /\ invoice \in {Invoice("Grand Plaza Hotel", 10, 3, Cents(10), <<>>)}
    /\ pc = "Extracted"
    /\ consolidated = <<>>
    /\ ms_expense_entries = <<>>
    /\ adjusted_entries = <<>>
    /\ NothingReturned

CallerStep(w) ==
    /\ calls[w].pc # "Finalized"
    /\ LET call == method_call(engine, calls[w])
       IN  /\ calls' = [calls EXCEPT ![w] = call.returned]
           /\ engine' = call.attributes
    /\ UNCHANGED <<chain_vars, service_vars>>

NextConcurrent == \E w \in Callers : CallerStep(w)

SpecConcurrent == InitConcurrent /\ [][NextConcurrent]_vars

(***************************************************************************)
(* expense_matcher: receipts against the lines of the expense table         *)
(***************************************************************************)
\* the engine is not in use
EngineIdle ==
    /\ invoice \in {Invoice("Grand Plaza Hotel", 10, 3, Cents(10), <<>>)}
    /\ pc = "Extracted"
    /\ consolidated = <<>>
    /\ ms_expense_entries = <<>>
    /\ adjusted_entries = <<>>
    /\ NothingReturned
    /\ calls = <<>>
    /\ engine = NoAttributes

\* float(text) for the amounts written in the expense table, in hundredths
to_float(text) ==
    CASE text = "25.99" -> 2599
      [] text = "25.990" -> 2599
      [] text = "42.00" -> 4200
      [] text = "42" -> 4200

\* the expense table as match_receipts_with_expenses reads it: the Amount
\* string split at the blanks, its first part parsed as the Amount and its
\* second part stored as the Currency, in place of the line's own Currency;
\* a line with no second part gets None
split_amount_and_currency(expense_data) ==
    [i \in 1..Len(expense_data) |->
        [expense_data[i] EXCEPT
            !.Amount = to_float(expense_data[i].Amount[1]),
            !.Currency = IF Len(expense_data[i].Amount) >= 2
                             THEN expense_data[i].Amount[2] ELSE None]]

\* the frame cannot be built: no line and so no Amount column (KeyError), or
\* the split does not give exactly the two columns assigned to (ValueError)
frame_raises(expense_data) ==
    \/ expense_data = <<>>
    \/ \A i \in 1..Len(expense_data) : Len(expense_data[i].Amount) < 2
    \/ \E i \in 1..Len(expense_data) : Len(expense_data[i].Amount) > 2

receipt_match_score(receipt, expense_line) ==
    IF "invoiceDetails" \notin DOMAIN receipt THEN 0
    ELSE IF /\ expense_line.Date = receipt.invoiceDetails.Date
            /\ expense_line.Currency = receipt.invoiceDetails.Currency
            /\ expense_line.Amount = receipt.invoiceDetails.Amount
         THEN 1
         ELSE 0

\* the first line, in table order, that is not matched yet and scores 1.0;
\* 0 when the inner loop runs to its end
first_matching_line(receipt, lines, matched_expense_indices) ==
    LET open_lines == {i \in 1..Len(lines) :
                          /\ i \notin matched_expense_indices
                          /\ receipt_match_score(receipt, lines[i]) = 1}
    IN  IF open_lines = {} THEN 0
        ELSE CHOOSE i \in open_lines : \A j \in open_lines : i <= j

\* the loop over the receipts from the k-th on
RECURSIVE match_loop(_, _, _, _, _)
match_loop(bulk_receipts, k, lines, matched_expense_indices, unmatched_receipts) ==
    IF k > Len(bulk_receipts)
        THEN [raised |-> FALSE,
              matched_expense_data |-> lines,
              unmatched_receipts |-> unmatched_receipts]
    ELSE LET receipt == bulk_receipts[k]
         IN  IF "invoiceDetails" \notin DOMAIN receipt
                 THEN match_loop(bulk_receipts, k + 1, lines, matched_expense_indices,
                                 Append(unmatched_receipts, receipt))
             ELSE LET i == first_matching_line(receipt, lines, matched_expense_indices)
                  IN  IF i = 0
                          THEN match_loop(bulk_receipts, k + 1, lines,
                                          matched_expense_indices,
                                          Append(unmatched_receipts, receipt))
                      ELSE match_loop(bulk_receipts, k + 1,
                                      [lines EXCEPT ![i].receipts = Append(@, receipt)],
                                      matched_expense_indices \cup {i},
                                      unmatched_receipts)

\* what a call that raises leaves its caller with
matching_raised(exception) == [raised |-> TRUE, exception |-> exception]

match_receipts_with_expenses(bulk_receipts, expense_data) ==
    IF expense_data = <<>> THEN matching_raised("KeyError")
    ELSE IF frame_raises(expense_data) THEN matching_raised("ValueError")
    ELSE IF bulk_receipts = <<>> THEN matching_raised("IndexError")
    ELSE match_loop(bulk_receipts, 1, split_amount_and_currency(expense_data),
                    {}, <<>>)

\* bounds of the matching inputs
MaxReceipts == 3

MaxExpenseLines == 2

\* what the extraction found on a receipt
ReceiptDetails ==
    [Date : {15, 16}, Currency : {"USD"}, Amount : {2599, 4200}]

\* stands for a receipt that carries no invoiceDetails
NoDetails == [extracted |-> FALSE]

named_receipt(k, details) ==
    IF details = NoDetails THEN [name |-> k]
    ELSE [name |-> k, invoiceDetails |-> details]

\* receipts are named by their position in the upload
BulkReceipts ==
    {[k \in 1..Len(ds) |-> named_receipt(k, ds[k])] :
        ds \in SeqsUpTo({NoDetails} \cup
                        {d \in ReceiptDetails : d.Date = 15 \/ d.Amount = 4200},
                        MaxReceipts)}

\* the lines of the expense table: the Amount cell holds the amount and the
\* currency, the Currency cell is the line's own, and a line may already
\* carry a receipt from an earlier call
ExpenseLineCells ==
    [Date : {15},
     Amount : {<<"25.99", "USD">>, <<"25.990", "USD">>, <<"42.00", "USD">>,
               <<"42", "EUR">>, <<"42">>},
     Currency : {"USD"},
     receipts : {<<>>, <<[name |-> 0]>>}]

ExpenseData ==
    {[i \in 1..Len(ls) |->
        [id |-> i, Date |-> ls[i].Date, Amount |-> ls[i].Amount,
         Currency |-> ls[i].Currency, receipts |-> ls[i].receipts]] :
        ls \in SeqsUpTo(ExpenseLineCells, MaxExpenseLines)}

InitMatcher ==
    /\ EngineIdle
    /\ suggestion = NoSuggestion
    /\ ManagerImported
    /\ matching \in [called : {FALSE},
                     bulk_receipts : BulkReceipts,
                     expense_data : ExpenseData]

MatchReceiptsWithExpenses ==
    /\ ~matching.called
    /\ matching' = [called |-> TRUE,
                    bulk_receipts |-> matching.bulk_receipts,
                    expense_data |-> matching.expense_data,
                    returned |-> match_receipts_with_expenses(
                                     matching.bulk_receipts, matching.expense_data)]
    /\ UNCHANGED <<chain_vars, concurrent_vars, suggestion, manager_vars>>

NextMatcher == MatchReceiptsWithExpenses

SpecMatcher == InitMatcher /\ [][NextMatcher]_vars

(***************************************************************************)
(* HotelCategorizer.suggest_category_for_description                        *)
(***************************************************************************)
\* a string is the sequence of its characters

\* str.lower() on the characters that occur
lower_char(c) ==
    CASE c = "A" -> "a" [] c = "B" -> "b" [] c = "M" -> "m" [] c = "R" -> "r"
      [] c = "S" -> "s" [] c = "T" -> "t" [] c = "X" -> "x"
      [] OTHER -> c

lower(text) == [k \in 1..Len(text) |-> lower_char(text[k])]

\* term in text
contains(text, term) ==
    \E start \in 1..(Len(text) - Len(term) + 1) :
        \A k \in 1..Len(term) : text[start + k - 1] = term[k]

\* any(term in text for term in terms)
contains_any(text, terms) == \E term \in terms : contains(text, term)

room_rate_terms ==
    {<<"r", "o", "o", "m">>,
     <<"a", "c", "c", "o", "m", "m", "o", "d", "a", "t", "i", "o", "n">>,
     <<"s", "t", "a", "y">>,
     <<"n", "i", "g", "h", "t">>}

tax_terms ==
    {<<"t", "a", "x">>,
     <<"v", "a", "t">>,
     <<"o", "c", "c", "u", "p", "a", "n", "c", "y">>,
     <<"c", "i", "t", "y", " ", "t", "a", "x">>}

deposit_terms ==
    {<<"d", "e", "p", "o", "s", "i", "t">>,
     <<"a", "d", "v", "a", "n", "c", "e">>,
     <<"p", "r", "e", "p", "a", "y", "m", "e", "n", "t">>}

telephone_terms ==
    {<<"p", "h", "o", "n", "e">>,
     <<"t", "e", "l", "e", "p", "h", "o", "n", "e">>,
     <<"c", "a", "l", "l">>,
     <<"c", "o", "m", "m", "u", "n", "i", "c", "a", "t", "i", "o", "n">>}

food_and_beverage_terms ==
    {<<"r", "o", "o", "m", " ", "s", "e", "r", "v", "i", "c", "e">>,
     <<"r", "e", "s", "t", "a", "u", "r", "a", "n", "t">>,
     <<"b", "a", "r">>,
     <<"f", "o", "o", "d">>,
     <<"b", "e", "v", "e", "r", "a", "g", "e">>,
     <<"m", "e", "a", "l">>}

laundry_terms ==
    {<<"l", "a", "u", "n", "d", "r", "y">>,
     <<"c", "l", "e", "a", "n", "i", "n", "g">>,
     <<"v", "a", "l", "e", "t">>}

suggest_category_for_description(description, amount) ==
    LET description_lower == lower(description)
    IN  IF contains_any(description_lower, room_rate_terms)
            THEN "Daily Room Rate"
        ELSE IF contains_any(description_lower, tax_terms)
            THEN "Hotel Tax"
        ELSE IF contains_any(description_lower, deposit_terms)
            THEN "Hotel Deposit"
        ELSE IF contains_any(description_lower, telephone_terms)
            THEN "Hotel Telephone"
        ELSE IF contains_any(description_lower, food_and_beverage_terms)
            THEN "Room Service & Meals etc"
        ELSE IF contains_any(description_lower, laundry_terms)
            THEN "Laundry"
        ELSE "Incidentals"

\* bound of the descriptions: the number of words
MaxWords == 2

\* the words of the line-item descriptions
Words ==
    {<<"r", "o", "o", "m">>,
     <<"R", "o", "o", "m">>,
     <<"s", "e", "r", "v", "i", "c", "e">>,
     <<"r", "e", "s", "t", "a", "u", "r", "a", "n", "t">>,
     <<"b", "a", "r">>,
     <<"B", "A", "R">>,
     <<"m", "i", "n", "i", "b", "a", "r">>,
     <<"t", "a", "x">>,
     <<"l", "a", "u", "n", "d", "r", "y">>,
     <<"s", "p", "a">>,
     <<"p", "a", "r", "k", "i", "n", "g">>,
     <<"c", "a", "l", "l">>}

\* the words joined by single blanks
RECURSIVE joined(_)
joined(ws) ==
    IF Len(ws) = 0 THEN <<>>
    ELSE IF Len(ws) = 1 THEN ws[1]
    ELSE ws[1] \o <<" ">> \o joined(Tail(ws))

Descriptions == {joined(ws) : ws \in SeqsUpTo(Words, MaxWords)}

InitSuggest ==
    /\ EngineIdle
    /\ matching = NoMatching
    /\ ManagerImported
    /\ suggestion \in [called : {FALSE},
                       description : Descriptions,
                       amount : {Cents(0), Cents(10)}]

SuggestCategoryForDescription ==
    /\ ~suggestion.called
    /\ suggestion' = [called |-> TRUE,
                      description |-> suggestion.description,
                      amount |-> suggestion.amount,
                      returned |-> suggest_category_for_description(
                                       suggestion.description, suggestion.amount)]
    /\ UNCHANGED <<chain_vars, concurrent_vars, matching, manager_vars>>

NextSuggest == SuggestCategoryForDescription

SpecSuggest == InitSuggest /\ [][NextSuggest]_vars

(***************************************************************************)
(* playwright_manager: the Playwright instance, the browser connection and  *)
(* the current page, held in module globals                                 *)
(***************************************************************************)
\* bound: the number of distinct objects a handle may refer to
MaxHandles == 2

\* the objects sync_playwright().start(), connect_over_cdp() and the callers
\* of set_current_page produce
Handles == 1..MaxHandles

\* the three globals
handles ==
    [_playwright_instance |-> _playwright_instance,
     _browser_connection |-> _browser_connection,
     _current_page |-> _current_page]

\* the globals after cleanup_page
cleanup_page(h) ==
    IF h._current_page # NoHandle THEN [h EXCEPT !._current_page = NoHandle] ELSE h

\* the globals after cleanup_browser; an exception of close() is logged and
\* the connection is dropped all the same
cleanup_browser(h) ==
    IF h._browser_connection # NoHandle
        THEN [h EXCEPT !._browser_connection = NoHandle]
        ELSE h

\* a variant that stops the instance and leaves the page and the connection
stop_playwright_instance_only(h) ==
    [h EXCEPT !._playwright_instance = NoHandle]

\* the globals after stop_playwright; an exception of stop() is logged and
\* the instance is dropped all the same
stop_playwright(h) ==
    LET cleaned == cleanup_browser(cleanup_page(h))
    IN  [cleaned EXCEPT !._playwright_instance = NoHandle]

\* the call returns, or raises, leaving the globals as h
ManagerReturns(name, raised, h) ==
    /\ manager_call' = [name |-> name, raised |-> raised, before |-> handles]
    /\ _playwright_instance' = h._playwright_instance
    /\ _browser_connection' = h._browser_connection
    /\ _current_page' = h._current_page
    /\ UNCHANGED <<chain_vars, concurrent_vars, matching, suggestion>>

StartPlaywright ==
    IF _playwright_instance # NoHandle
        THEN ManagerReturns("start_playwright", TRUE, handles)
    ELSE \/ \E instance \in Handles :
                ManagerReturns("start_playwright", FALSE,
                               [handles EXCEPT !._playwright_instance = instance])
         \* sync_playwright().start() fails
         \/ ManagerReturns("start_playwright", TRUE, handles)

ConnectToBrowser ==
    IF _playwright_instance = NoHandle
        THEN ManagerReturns("connect_to_browser", TRUE, handles)
    ELSE IF _browser_connection # NoHandle
        THEN ManagerReturns("connect_to_browser", FALSE, handles)
    ELSE \/ \E browser \in Handles :
                ManagerReturns("connect_to_browser", FALSE,
                               [handles EXCEPT !._browser_connection = browser])
         \* connect_over_cdp fails: ConnectionError
         \/ ManagerReturns("connect_to_browser", TRUE, handles)

SetCurrentPage ==
    \E page \in Handles \cup {NoHandle} :
        ManagerReturns("set_current_page", FALSE,
                       [handles EXCEPT !._current_page = page])

CleanupPage == ManagerReturns("cleanup_page", FALSE, cleanup_page(handles))

CleanupBrowser == ManagerReturns("cleanup_browser", FALSE, cleanup_browser(handles))

StopPlaywright == ManagerReturns("stop_playwright", FALSE, stop_playwright(handles))

InitManager ==
    /\ EngineIdle
    /\ matching = NoMatching
    /\ suggestion = NoSuggestion
    /\ ManagerImported

NextManager ==
    \/ StartPlaywright
    \/ ConnectToBrowser
    \/ SetCurrentPage
    \/ CleanupPage
    \/ CleanupBrowser
    \/ StopPlaywright

SpecManager == InitManager /\ [][NextManager]_vars

(***************************************************************************)
(* Vocabulary of the properties                                             *)
(***************************************************************************)
\* exact integer sum of f[i] over the index set S
RECURSIVE SumOver(_, _)
SumOver(f, S) ==
    IF S = {} THEN 0
    ELSE LET i == CHOOSE j \in S : TRUE IN f[i] + SumOver(f, S \ {i})

SumOfTotals(records) == SumOver(TotalAmounts(records), 1..Len(records))

ItemIdx == 1..Len(invoice.line_items)

\* positions of the line items assigned a category other than Ignore
AssignedIdx ==
    {i \in ItemIdx : invoice.line_items[i].user_category \notin {None, IGNORE}}

IgnoredIdx == {i \in ItemIdx : invoice.line_items[i].user_category = IGNORE}

MissingIdx == {i \in ItemIdx : invoice.line_items[i].user_category = None}

AssignedAmount == SumOver(ItemAmounts(invoice.line_items), AssignedIdx)

AllAmount == SumOver(ItemAmounts(invoice.line_items), ItemIdx)

StayDays == invoice.check_out_date - invoice.check_in_date

\* max(1, check_out - check_in)
StayNights == IF StayDays >= 1 THEN StayDays ELSE 1

\* daily_rate * quantity is within 0.01 of total_amount
RateConsistent(e) ==
    Abs(DecMul(e.daily_rate, e.quantity) - e.total_amount) <= Cents(1)

\* how often x occurs in the sequence s
Occurrences(s, x) == Cardinality({k \in 1..Len(s) : s[k] = x})

(***************************************************************************)
(* C1.  For every invoice that passes validate_invoice_details and the      *)
(* categorization check, the entries obtained by consolidate_categories,    *)
(* calculate_daily_rates and adjust_for_rounding against the invoice total  *)
(* have totals that sum to exactly the invoice total.                       *)
(* The code leaves a difference of one cent in place.                       *)
(***************************************************************************)
C1_ExactReconciliation ==
    (Reached("RateAdjusted") /\ invoice_report.passed /\ categorization_report.passed)
        => SumOfTotals(adjusted_entries) = invoice.total_amount

(***************************************************************************)
(* C2.  For every non-empty list of entries and every target total,         *)
(* adjust_for_rounding returns a list whose totals sum to exactly the       *)
(* target, in particular for a list one cent short of (or over) the target. *)
(* The code returns such a list as it is.                                   *)
(***************************************************************************)
C2_AdjustHitsTarget ==
    (Reached("RateAdjusted") /\ ms_expense_entries # <<>>)
        => SumOfTotals(adjusted_entries) = invoice.total_amount

(***************************************************************************)
(* C3.  Each consolidated category that the taxonomy tags recurring (Daily  *)
(* Room Rate and Hotel Tax) has quantity = nights and daily_rate = total /  *)
(* nights; every other one has quantity = 1 and daily_rate = total.         *)
(* The code treats Hotel Tax as a one-time category.                        *)
(***************************************************************************)
C3_RecurringTaxonomy ==
    Reached("Consolidated") =>
        \A k \in 1..Len(consolidated) :
            LET c == consolidated[k]
            IN  IF c.category \in {"Daily Room Rate", "Hotel Tax"}
                    THEN /\ c.quantity = StayNights
                         /\ c.daily_rate = DecDiv(c.total_amount, StayNights)
                    ELSE /\ c.quantity = 1
                         /\ c.daily_rate = c.total_amount

(***************************************************************************)
(* C4.  Every entry that results from calculate_daily_rates followed by     *)
(* adjust_for_rounding on the consolidated categories satisfies             *)
(* |daily_rate * quantity - total_amount| <= 0.01, the rewritten entry      *)
(* included.                                                                *)
(***************************************************************************)
C4_RateTimesQuantity ==
    /\ Reached("Rated") =>
           \A k \in 1..Len(ms_expense_entries) : RateConsistent(ms_expense_entries[k])
    /\ Reached("RateAdjusted") =>
           \A k \in 1..Len(adjusted_entries) : RateConsistent(adjusted_entries[k])

\* an adjustment rewrote an entry of a three-night recurring category whose
\* new total the nights do not divide
C4_Witness ==
    /\ Reached("RateAdjusted")
    /\ \E k \in 1..Len(adjusted_entries) :
           /\ adjusted_entries[k] # ms_expense_entries[k]
           /\ adjusted_entries[k].quantity = 3
           /\ DecMul(adjusted_entries[k].daily_rate, 3) # adjusted_entries[k].total_amount

(***************************************************************************)
(* C5.  validate_categories returns total_assigned equal to the sum of the  *)
(* amounts of the line items whose user_category is a category other than   *)
(* Ignore, and validation_passed is true exactly when that sum is within    *)
(* 0.01 of the invoice total and no line item has a null user_category.     *)
(***************************************************************************)
C5_ValidateCategories ==
    Reached("CategoriesValidated") =>
        /\ categories_report.total_assigned = AssignedAmount
        /\ categories_report.total_original = invoice.total_amount
        /\ categories_report.validation_passed
               <=> (/\ Abs(AssignedAmount - invoice.total_amount) <= Cents(1)
                    /\ MissingIdx = {})

\* the check passed on an invoice that has an ignored item of non-zero amount
C5_Witness ==
    /\ Reached("CategoriesValidated")
    /\ categories_report.validation_passed
    /\ \E i \in IgnoredIdx : invoice.line_items[i].amount # 0
    /\ AssignedIdx # {}

(***************************************************************************)
(* C6.  When every line item has a user_category, at least one item is not  *)
(* Ignore, and the amounts of all line items (Ignore items included) sum to *)
(* the invoice total within 0.01, the categorization check passes.          *)
(* The code fails the check when the non-Ignore amounts sum to zero.        *)
(***************************************************************************)
C6_IgnoredCountTowardsTotal ==
    (/\ Reached("Categorized")
     /\ MissingIdx = {}
     /\ AssignedIdx # {}
     /\ Abs(AllAmount - invoice.total_amount) <= Cents(1))
        => categorization_report.passed

(***************************************************************************)
(* C7.  The totals of the consolidated categories sum to exactly the sum of *)
(* the amounts of the line items assigned a category other than Ignore,     *)
(* each such line item is a source item of exactly one consolidated         *)
(* category, and create_itemization_result reports that sum as              *)
(* total_itemized.                                                          *)
(***************************************************************************)
C7_ConsolidationConservesAmounts ==
    /\ Reached("Consolidated") =>
           /\ SumOfTotals(consolidated) = AssignedAmount
           /\ \A i \in AssignedIdx :
                  /\ Cardinality({k \in 1..Len(consolidated) :
                         Occurrences(consolidated[k].source_items, i) > 0}) = 1
                  /\ \A k \in 1..Len(consolidated) :
                         Occurrences(consolidated[k].source_items, i) <= 1
    /\ Reached("Finalized") => result.total_itemized = AssignedAmount

\* a finished invoice with two items in one category and an ignored amount
C7_Witness ==
    /\ Reached("Finalized")
    /\ \E k \in 1..Len(consolidated) : Len(consolidated[k].source_items) >= 2
    /\ \E i \in IgnoredIdx : invoice.line_items[i].amount # 0
    /\ result.total_itemized # AllAmount

MissingDescriptions ==
    LET missing == SelectSeq(invoice.line_items,
                             LAMBDA item : item.user_category = None)
    IN  [k \in 1..Len(missing) |-> missing[k].description]

C9_IgnoreNeverItemized ==
    /\ \A k \in 1..Len(consolidated) :
           /\ consolidated[k].category # IGNORE
           /\ \A m \in 1..Len(consolidated[k].source_items) :
                  consolidated[k].source_items[m] \notin IgnoredIdx
    /\ \A k \in 1..Len(ms_expense_entries) : ms_expense_entries[k].subcategory # IGNORE
    /\ \A k \in 1..Len(adjusted_entries) : adjusted_entries[k].subcategory # IGNORE
    /\ \A k \in 1..Len(result.consolidated_categories) :
           result.consolidated_categories[k].category # IGNORE

\* all stages ran on an invoice with an ignored item and an itemized one
C9_Witness ==
    /\ Reached("RateAdjusted")
    /\ IgnoredIdx # {}
    /\ adjusted_entries # <<>>
    /\ consolidated # <<>>

(***************************************************************************)
(* C10.  The number of nights is max(1, check_out - check_in), at least 1   *)
(* for same-day and inverted date ranges; calculate_nights,                 *)
(* consolidate_categories and create_itemization_result compute the same    *)
(* value; with equal check-in and check-out a recurring category gets       *)
(* quantity 1.                                                              *)
(***************************************************************************)
C10_NightsAtLeastOne ==
    /\ Reached("Consolidated") =>
           \A k \in 1..Len(consolidated) :
               consolidated[k].category \in DAILY_RATE_CATEGORIES
                   => /\ consolidated[k].quantity = StayNights
                      /\ consolidated[k].quantity >= 1
                      /\ StayDays = 0 => consolidated[k].quantity = 1
    /\ Reached("Rated") => (nights = StayNights /\ nights >= 1)
    /\ Reached("Finalized") =>
           /\ result.number_of_nights = StayNights
           /\ result.number_of_nights = nights
           /\ result.number_of_nights >= 1

\* a finished same-day invoice with a recurring category
C10_Witness ==
    /\ Reached("Finalized")
    /\ StayDays = 0
    /\ \E k \in 1..Len(consolidated) :
           consolidated[k].category \in DAILY_RATE_CATEGORIES

\* a finished invoice with an inverted date range and a recurring category
C10_WitnessInverted ==
    /\ Reached("Finalized")
    /\ StayDays < 0
    /\ \E k \in 1..Len(consolidated) :
           consolidated[k].category \in DAILY_RATE_CATEGORIES

\* the report lists an error with this text and these values
HasError(report, msg, args) ==
    \E k \in 1..Len(report.errors) :
        /\ report.errors[k].msg = msg
        /\ report.errors[k].args = args

\* the texts of the errors of a report, in order
ErrorTexts(report) == [k \in 1..Len(report.errors) |-> report.errors[k].msg]

\* the conditions under which a list of entries is acceptable against a total
EntriesAcceptable(entries, original_total) ==
    /\ Abs(SumOfTotals(entries) - original_total) <= Cents(1)
    /\ \A k \in 1..Len(entries) :
           /\ entries[k].daily_rate > 0
           /\ entries[k].quantity > 0
           /\ RateConsistent(entries[k])

\* each entry with a zero quantity or a non-positive daily rate has its own
\* error in the report, and the report failed
BadEntriesReported(entries, report) ==
    \A k \in 1..Len(entries) :
        /\ entries[k].quantity = 0 =>
               /\ HasError(report, "Invalid quantity",
                           <<entries[k].subcategory, entries[k].quantity>>)
               /\ ~report.passed
        /\ entries[k].daily_rate <= 0 =>
               /\ HasError(report, "Invalid daily rate",
                           <<entries[k].subcategory, entries[k].daily_rate>>)
               /\ ~report.passed

(***************************************************************************)
(* C11.  validate_ms_expense_entries returns passed = true exactly when the *)
(* entry totals sum to the original total within 0.01 and every entry has   *)
(* daily_rate > 0, quantity > 0 and daily_rate * quantity within 0.01 of    *)
(* its total; an entry with quantity 0 or daily_rate <= 0 gets its own      *)
(* error, with passed = false.                                              *)
(* The code fails an empty list even against a total of zero.               *)
(***************************************************************************)
C11_EntriesPassExactlyWhen ==
    Reached("EntriesValidated") =>
        /\ entries_report.passed
               <=> EntriesAcceptable(adjusted_entries, invoice.total_amount)
        /\ BadEntriesReported(adjusted_entries, entries_report)

(***************************************************************************)
(* C11, as amended.  For a non-empty list of entries,                       *)
(* validate_ms_expense_entries returns passed = true exactly when the entry *)
(* totals sum to the original total within 0.01 and every entry has         *)
(* daily_rate > 0, quantity > 0 and daily_rate * quantity within 0.01 of    *)
(* its total, and an entry with quantity 0 or daily_rate <= 0 gets its own  *)
(* error, with passed = false; for an empty list it returns passed = false  *)
(* with the one error "No MS Expense entries to validate", whatever the     *)
(* original total.                                                          *)
(***************************************************************************)
C11_NonEmptyEntriesPassExactlyWhen ==
    Reached("EntriesValidated") =>
        IF adjusted_entries = <<>>
            THEN /\ ~entries_report.passed
                 /\ ErrorTexts(entries_report) = <<"No MS Expense entries to validate">>
            ELSE /\ entries_report.passed
                        <=> EntriesAcceptable(adjusted_entries, invoice.total_amount)
                 /\ BadEntriesReported(adjusted_entries, entries_report)

\* the check failed a list that matches the total, only because an entry of
\* positive rate has quantity 0
C11_Witness ==
    /\ Reached("EntriesValidated")
    /\ ~entries_report.passed
    /\ Abs(SumOfTotals(adjusted_entries) - invoice.total_amount) <= Cents(1)
    /\ \E k \in 1..Len(adjusted_entries) :
           /\ adjusted_entries[k].quantity = 0
           /\ adjusted_entries[k].daily_rate > 0
    /\ \A k \in 1..Len(adjusted_entries) :
           /\ adjusted_entries[k].daily_rate > 0
           /\ RateConsistent(adjusted_entries[k])

\* the conditions under which a list of consolidated categories is acceptable
\* against a total
ConsolidationAcceptable(categories, original_total) ==
    /\ Abs(SumOfTotals(categories) - original_total) <= Cents(1)
    /\ \A k \in 1..Len(categories) :
           /\ categories[k].total_amount > 0
           /\ RateConsistent(categories[k])
           /\ categories[k].source_items # <<>>

(***************************************************************************)
(* C12.  validate_consolidation returns passed = true exactly when the      *)
(* consolidated totals sum to the original total within 0.01, every         *)
(* category's total is positive, every category has daily_rate * quantity   *)
(* within 0.01 of its total, whatever its quantity, and every category has  *)
(* a source item.  Stated for non-empty lists of categories that all carry  *)
(* a daily rate.                                                            *)
(* The code skips the rate check of a category whose quantity is not        *)
(* positive.                                                                *)
(***************************************************************************)
C12_ConsolidationPassesExactlyWhen ==
    (/\ Reached("ConsolidationValidated")
     /\ consolidated # <<>>
     /\ \A k \in 1..Len(consolidated) : "daily_rate" \in DOMAIN consolidated[k])
        => (consolidation_report.passed
                <=> ConsolidationAcceptable(consolidated, invoice.total_amount))

\* the line-item amounts are within 10% of the invoice total
WithinTenPercent == 10 * Abs(AllAmount - invoice.total_amount) <= invoice.total_amount

(***************************************************************************)
(* C13.  validate_invoice_details returns passed = true exactly when the    *)
(* hotel name is non-empty, there is at least one line item, the total is   *)
(* positive, check-out is not before check-in (the same day is accepted)    *)
(* and the line-item amounts sum to within 10% of the total; each violated  *)
(* condition contributes its own error.                                     *)
(***************************************************************************)
C13_InvoiceDetailsPassExactlyWhen ==
    Reached("InvoiceValidated") =>
        /\ invoice_report.passed
               <=> (/\ invoice.hotel_name # ""
                    /\ invoice.line_items # <<>>
                    /\ invoice.total_amount > 0
                    /\ invoice.check_out_date >= invoice.check_in_date
                    /\ WithinTenPercent)
        /\ Occurrences(ErrorTexts(invoice_report), "Hotel name is required")
               = (IF invoice.hotel_name = "" THEN 1 ELSE 0)
        /\ Occurrences(ErrorTexts(invoice_report), "No line items found in invoice")
               = (IF invoice.line_items = <<>> THEN 1 ELSE 0)
        /\ Occurrences(ErrorTexts(invoice_report),
                       "Total amount must be greater than zero")
               = (IF invoice.total_amount <= 0 THEN 1 ELSE 0)
        /\ Occurrences(ErrorTexts(invoice_report),
                       "Check-out date cannot be before check-in date")
               = (IF invoice.check_out_date < invoice.check_in_date THEN 1 ELSE 0)
        /\ Occurrences(ErrorTexts(invoice_report),
                       "Line items total differs significantly from invoice total")
               = (IF WithinTenPercent THEN 0 ELSE 1)
        /\ Len(invoice_report.errors) <= 5

\* a same-day invoice whose line items miss the total by exactly 10% passed
C13_Witness ==
    /\ Reached("InvoiceValidated")
    /\ invoice_report.passed
    /\ StayDays = 0
    /\ AllAmount # invoice.total_amount
    /\ 10 * Abs(AllAmount - invoice.total_amount) = invoice.total_amount

\* an invoice failed with four errors at once, the inverted dates among them
C13_WitnessManyErrors ==
    /\ Reached("InvoiceValidated")
    /\ Len(invoice_report.errors) = 4
    /\ invoice.check_out_date < invoice.check_in_date

(***************************************************************************)
(* C14.  Each validation operation (validate_invoice_details,               *)
(* validate_categories, validate_categorization, validate_consolidation,    *)
(* validate_daily_rate_totals, validate_ms_expense_entries) returns a       *)
(* report for every input, also where its body raises, and in every         *)
(* returned report the passed flag is true exactly when the error list is   *)
(* empty.                                                                   *)
(***************************************************************************)
C14_PassedIffNoErrors ==
    /\ Reached("InvoiceValidated") =>
           /\ DOMAIN invoice_report = {"passed", "errors"}
           /\ invoice_report.passed <=> invoice_report.errors = <<>>
    /\ Reached("CategoriesValidated") =>
           /\ DOMAIN categories_report
                  = {"validation_passed", "total_assigned", "total_original", "errors"}
           /\ categories_report.validation_passed <=> categories_report.errors = <<>>
    /\ Reached("Categorized") =>
           /\ DOMAIN categorization_report = {"passed", "errors"}
           /\ categorization_report.passed <=> categorization_report.errors = <<>>
    /\ Reached("ConsolidationValidated") =>
           /\ DOMAIN consolidation_report = {"passed", "errors"}
           /\ consolidation_report.passed <=> consolidation_report.errors = <<>>
    /\ Reached("TotalsValidated") =>
           /\ DOMAIN totals_report = {"passed", "calculated_total", "errors"}
           /\ totals_report.passed <=> totals_report.errors = <<>>
    /\ Reached("EntriesValidated") =>
           /\ DOMAIN entries_report = {"passed", "errors"}
           /\ entries_report.passed <=> entries_report.errors = <<>>

\* validate_consolidation met a category without a daily rate, whose rate
\* check raises, and returned the failed report of its except clause; the
\* later checks returned their reports too
C14_Witness ==
    /\ Reached("EntriesValidated")
    /\ \E k \in 1..Len(consolidated) : rate_check_raises(consolidated[k])
    /\ ~consolidation_report.passed
    /\ ErrorTexts(consolidation_report) = <<"Consolidation validation error: ">>
    /\ ~categorization_report.passed

\* the invoice with its line items in the order p
Reordered(inv, p) ==
    [inv EXCEPT !.line_items = [i \in 1..Len(inv.line_items) |-> inv.line_items[p[i]]]]

\* the (category, total_amount, daily_rate, quantity) records of a list of
\* consolidated categories
CategoryRecords(categories) ==
    {[category |-> categories[k].category,
      total_amount |-> categories[k].total_amount,
      daily_rate |-> categories[k].daily_rate,
      quantity |-> categories[k].quantity] : k \in 1..Len(categories)}

(***************************************************************************)
(* C15.  Consolidation is order-independent and repeatable: for every       *)
(* permutation of the line items of the invoice, consolidate_categories     *)
(* yields the same set of (category, total_amount, daily_rate, quantity)    *)
(* records as it returned for the invoice, and calling it again on the      *)
(* invoice returns the same list.                                           *)
(***************************************************************************)
C15_ConsolidationOrderIndependent ==
    pc = "Consolidated" =>
        /\ \A p \in Permutations(1..Len(invoice.line_items)) :
               CategoryRecords(consolidate_categories(Reordered(invoice, p)))
                   = CategoryRecords(consolidated)
        /\ consolidate_categories(invoice) = consolidated

\* a consolidated invoice with two categories whose items have different
\* amounts and can be swapped
C15_Witness ==
    /\ pc = "Consolidated"
    /\ Len(consolidated) = 2
    /\ Len(invoice.line_items) = 2
    /\ consolidated[1].total_amount # consolidated[2].total_amount
    /\ \E k \in 1..2 : consolidated[k].category \in DAILY_RATE_CATEGORIES

\* a consolidated invoice whose one category sums two items of different
\* amounts
C15_WitnessOneGroup ==
    /\ pc = "Consolidated"
    /\ Len(consolidated) = 1
    /\ Len(consolidated[1].source_items) = 2
    /\ invoice.line_items[1].amount # invoice.line_items[2].amount

\* the categories of a list of consolidated categories, in list order
CategorySequence(categories) ==
    [k \in 1..Len(categories) |-> categories[k].category]

\* the categories other than Ignore assigned to the line items, each once,
\* in the order in which they first appear
RECURSIVE FirstAppearances(_)
FirstAppearances(items) ==
    IF items = <<>> THEN <<>>
    ELSE LET earlier == FirstAppearances(SubSeq(items, 1, Len(items) - 1))
             category == items[Len(items)].user_category
         IN  IF category \in {None, IGNORE} \/ Occurrences(earlier, category) > 0
                 THEN earlier
                 ELSE Append(earlier, category)

(***************************************************************************)
(* C16.  The order of the list consolidate_categories returns does not      *)
(* depend on the order of the line items: for every permutation of the      *)
(* line items the categories come in the same sequence.                     *)
(* The code returns the groups in dict order, the order of first            *)
(* appearance.                                                              *)
(***************************************************************************)
C16_CategoryOrderIndependent ==
    pc = "Consolidated" =>
        \A p \in Permutations(1..Len(invoice.line_items)) :
            CategorySequence(consolidate_categories(Reordered(invoice, p)))
                = CategorySequence(consolidated)

(***************************************************************************)
(* C16, as amended.  The list consolidate_categories returns holds the      *)
(* categories in the order in which they first appear among the line items  *)
(* (uncategorized and Ignore items aside), so the order of the list follows *)
(* the order of the line items: two invoices that differ only in line-item  *)
(* order yield the categories in the same sequence only when their          *)
(* categories first appear in the same order.                               *)
(***************************************************************************)
C16_CategoryOrderOfFirstAppearance ==
    Reached("Consolidated") =>
        CategorySequence(consolidated) = FirstAppearances(invoice.line_items)

\* the tax item comes first on the invoice and first in the consolidated list
C16_Witness ==
    /\ Reached("Consolidated")
    /\ Len(consolidated) = 2
    /\ consolidated[1].category = "Hotel Tax"
    /\ consolidated[2].category = "Daily Room Rate"
    /\ invoice.line_items[1].user_category = "Hotel Tax"

\* a Decimal with at most two fraction digits
WholeCents(x) == x % Unit = 0

(***************************************************************************)
(* C17.  Every itemization entry handed to the downstream driver has a      *)
(* daily_rate and a total_amount that are whole numbers of cents and a      *)
(* positive quantity, for every invoice whose line-item amounts are whole   *)
(* cents, also when the nights do not divide a recurring total.  Stated for *)
(* the entries of invoices that passed every check.                         *)
(* The code hands on the unrounded quotient total / nights.                 *)
(***************************************************************************)
C17_EntriesInWholeCents ==
    (/\ Reached("EntriesValidated")
     /\ invoice_report.passed
     /\ categorization_report.passed
     /\ consolidation_report.passed
     /\ entries_report.passed)
        => \A k \in 1..Len(adjusted_entries) :
               /\ WholeCents(adjusted_entries[k].daily_rate)
               /\ WholeCents(adjusted_entries[k].total_amount)
               /\ adjusted_entries[k].quantity > 0

(***************************************************************************)
(* C18.  The stages of an invoice occur only in the order Extracted,        *)
(* Categorized, Consolidated, RateAdjusted, Validated, Finalized, and an    *)
(* invoice whose categorization check failed is never consolidated: no      *)
(* consolidated categories are produced for it.                             *)
(* The code's consolidate_categories takes the invoice whatever the check   *)
(* returned, and consolidates its categorized items.                        *)
(***************************************************************************)
C18_FailedCategorizationNotConsolidated ==
    (Reached("Consolidated") /\ ~categorization_report.passed)
        => consolidated = <<>>

\* the chain of an invoice processed on its own, after n method calls
RECURSIVE processed_alone(_, _)
processed_alone(inv, n) ==
    IF n = 0 THEN new_call(inv)
    ELSE next_call(processed_alone(inv, n - 1), inv)

C20_RerunIsNoOp ==
    Reached("Rerun") =>
        /\ adjusted_entries = adjust_for_rounding(ms_expense_entries, invoice.total_amount)
               => rerun_entries = adjusted_entries
        /\ entries_report.passed =>
               /\ rerun_entries = adjusted_entries
               /\ rerun_report = entries_report

\* the first run rewrote an entry of a two-entry list, the result passed the
\* check, and both were run again
C20_Witness ==
    /\ Reached("Rerun")
    /\ Len(ms_expense_entries) = 2
    /\ adjusted_entries = adjust_for_rounding(ms_expense_entries, invoice.total_amount)
    /\ adjusted_entries # ms_expense_entries
    /\ entries_report.passed

\* the first run rewrote an entry and the result still failed the check
C20_WitnessFailing ==
    /\ Reached("Rerun")
    /\ adjusted_entries = adjust_for_rounding(ms_expense_entries, invoice.total_amount)
    /\ adjusted_entries # ms_expense_entries
    /\ ~entries_report.passed

\* the number of places a receipt has been put in: the unmatched list and the
\* receipts of the returned lines
PlacesOf(receipt, returned) ==
    Occurrences(returned.unmatched_receipts, receipt)
    + SumOver([i \in 1..Len(returned.matched_expense_data) |->
                  Occurrences(returned.matched_expense_data[i].receipts, receipt)],
              1..Len(returned.matched_expense_data))

\* the returned line that holds the receipt agrees with it
HeldByItsEqual(receipt, returned) ==
    \A i \in 1..Len(returned.matched_expense_data) :
        Occurrences(returned.matched_expense_data[i].receipts, receipt) > 0 =>
            /\ "invoiceDetails" \in DOMAIN receipt
            /\ returned.matched_expense_data[i].Date = receipt.invoiceDetails.Date
            /\ returned.matched_expense_data[i].Currency = receipt.invoiceDetails.Currency
            /\ returned.matched_expense_data[i].Amount = receipt.invoiceDetails.Amount

(***************************************************************************)
(* C21.  match_receipts_with_expenses returns, with every input receipt in  *)
(* exactly one place: the unmatched list, or the receipts of exactly one    *)
(* expense line whose date, currency and amount equal the receipt's; a      *)
(* receipt without invoiceDetails is unmatched, all expense lines are       *)
(* returned, and no line receives more than one receipt in one call.        *)
(* The code raises when either list is empty.                               *)
(***************************************************************************)
C21_EveryReceiptPlacedOnce ==
    matching.called =>
        /\ ~matching.returned.raised
        /\ Len(matching.returned.matched_expense_data) = Len(matching.expense_data)
        /\ \A i \in 1..Len(matching.expense_data) :
               /\ matching.returned.matched_expense_data[i].id = matching.expense_data[i].id
               /\ Len(matching.returned.matched_expense_data[i].receipts)
                      <= Len(matching.expense_data[i].receipts) + 1
        /\ \A k \in 1..Len(matching.bulk_receipts) :
               LET receipt == matching.bulk_receipts[k]
               IN  /\ PlacesOf(receipt, matching.returned) = 1
                   /\ HeldByItsEqual(receipt, matching.returned)
                   /\ "invoiceDetails" \notin DOMAIN receipt =>
                          Occurrences(matching.returned.unmatched_receipts, receipt) = 1

\* adjust_for_rounding has run on the entries of calculate_daily_rates, or of
\* the caller, against the invoice total
AdjustRan ==
    /\ Reached("RateAdjusted")
    /\ adjusted_entries = adjust_for_rounding(ms_expense_entries, invoice.total_amount)

\* what the entries miss of the invoice total
Residual == invoice.total_amount - SumOfTotals(ms_expense_entries)

\* i is the first entry, in input order, among those with the largest total
FirstLargest(entries, i) ==
    /\ i \in 1..Len(entries)
    /\ \A j \in 1..Len(entries) : entries[j].total_amount <= entries[i].total_amount
    /\ \A j \in 1..(i - 1) : entries[j].total_amount < entries[i].total_amount

\* only the i-th entry differs, and of it only the total and the daily rate
OnlyEntryChanged(before, after, i) ==
    /\ Len(after) = Len(before)
    /\ \A k \in 1..Len(before) : k # i => after[k] = before[k]
    /\ after[i] # before[i]
    /\ after[i].subcategory = before[i].subcategory
    /\ after[i].start_date = before[i].start_date
    /\ after[i].quantity = before[i].quantity
    /\ after[i].total_amount = before[i].total_amount + Residual

(***************************************************************************)
(* C22.  When the target differs from the sum of the entry totals by more   *)
(* than 0.01, adjust_for_rounding changes exactly one entry, the first in   *)
(* input order among those with the largest total: its total becomes the    *)
(* old total plus the difference and its daily rate the new total divided   *)
(* by its quantity; everything else is unchanged.  Otherwise the list is    *)
(* returned unchanged.                                                      *)
(* The code has no entry to change in an empty list, and does not divide    *)
(* for an entry of quantity 0.                                              *)
(***************************************************************************)
C22_AdjustChangesOnlyLargest ==
    AdjustRan =>
        IF Abs(Residual) > Cents(1)
            THEN \E i \in 1..Len(ms_expense_entries) :
                     /\ FirstLargest(ms_expense_entries, i)
                     /\ OnlyEntryChanged(ms_expense_entries, adjusted_entries, i)
                     /\ ms_expense_entries[i].quantity # 0
                     /\ adjusted_entries[i].daily_rate =
                            DecDiv(adjusted_entries[i].total_amount,
                                   ms_expense_entries[i].quantity)
            ELSE adjusted_entries = ms_expense_entries

(***************************************************************************)
(* C22, as amended.  For a non-empty list whose totals miss the target by   *)
(* more than 0.01, adjust_for_rounding changes exactly one entry, the first *)
(* in input order among those with the largest total: its total becomes the *)
(* old total plus the difference, and its daily rate the new total divided  *)
(* by its quantity when the quantity is positive and the new total itself   *)
(* when it is not; everything else is unchanged.  An empty list, and a list *)
(* within 0.01 of the target, is returned unchanged.                        *)
(***************************************************************************)
C22_AdjustChangesOnlyLargestOfNonEmpty ==
    AdjustRan =>
        IF Abs(Residual) > Cents(1) /\ ms_expense_entries # <<>>
            THEN \E i \in 1..Len(ms_expense_entries) :
                     /\ FirstLargest(ms_expense_entries, i)
                     /\ OnlyEntryChanged(ms_expense_entries, adjusted_entries, i)
                     /\ adjusted_entries[i].daily_rate =
                            IF ms_expense_entries[i].quantity > 0
                                THEN DecDiv(adjusted_entries[i].total_amount,
                                            ms_expense_entries[i].quantity)
                                ELSE adjusted_entries[i].total_amount
            ELSE adjusted_entries = ms_expense_entries

\* two entries of equal total missed the target, and the first was rewritten
C22_Witness ==
    /\ AdjustRan
    /\ Len(ms_expense_entries) = 2
    /\ ms_expense_entries[1].total_amount = ms_expense_entries[2].total_amount
    /\ Abs(Residual) > Cents(1)
    /\ adjusted_entries[1] # ms_expense_entries[1]
    /\ adjusted_entries[2] = ms_expense_entries[2]

\* the rewritten entry has quantity 0 and its daily rate is its new total
C22_WitnessZeroQuantity ==
    /\ AdjustRan
    /\ Len(ms_expense_entries) = 1
    /\ ms_expense_entries[1].quantity = 0
    /\ Abs(Residual) > Cents(1)
    /\ adjusted_entries[1].total_amount = invoice.total_amount
    /\ adjusted_entries[1].daily_rate = invoice.total_amount
    /\ adjusted_entries[1].daily_rate # ms_expense_entries[1].daily_rate

\* calculate_daily_rates has run on the consolidated categories
RatesCalculated ==
    /\ Reached("Rated")
    /\ ms_expense_entries =
           calculate_daily_rates(consolidated, invoice.check_in_date,
                                 invoice.check_out_date)

\* the consolidated categories that are not Ignore, in input order
NotIgnored ==
    InOrder({i \in 1..Len(consolidated) : consolidated[i].category # IGNORE})

(***************************************************************************)
(* C23.  calculate_daily_rates returns exactly one entry per consolidated   *)
(* category that is not Ignore, in input order, with start_date = check_in  *)
(* and the category's daily_rate, quantity and total_amount copied, for     *)
(* every list of categories the data model admits, a category whose         *)
(* daily_rate is unset included.                                            *)
(* The code returns no entry at all when a category has no daily_rate.      *)
(***************************************************************************)
C23_OneEntryPerCategory ==
    RatesCalculated =>
        /\ Len(ms_expense_entries) = Len(NotIgnored)
        /\ \A k \in 1..Len(ms_expense_entries) :
               LET category == consolidated[NotIgnored[k]]
               IN  /\ ms_expense_entries[k].subcategory = category.category
                   /\ ms_expense_entries[k].start_date = invoice.check_in_date
                   /\ ms_expense_entries[k].quantity = category.quantity
                   /\ ms_expense_entries[k].total_amount = category.total_amount
                   /\ "daily_rate" \in DOMAIN category =>
                          ms_expense_entries[k].daily_rate = category.daily_rate

\* every keyword of the heuristic
AllTerms ==
    room_rate_terms \cup tax_terms \cup deposit_terms \cup telephone_terms
        \cup food_and_beverage_terms \cup laundry_terms

\* the description, whatever its case, contains the keyword
Mentions(description, term) == contains(lower(description), term)

(***************************************************************************)
(* C24.  suggest_category_for_description returns Room Service & Meals etc  *)
(* for every description that contains "room service", "restaurant" or      *)
(* "bar" in any case, returns Incidentals exactly when no keyword of any    *)
(* group occurs in the description, and never returns Ignore.               *)
(* The code looks for "room" and "tax" before it looks for the meal terms.  *)
(***************************************************************************)
C24_MealsKeywordsGiveMeals ==
    suggestion.called =>
        /\ (\/ Mentions(suggestion.description,
                        <<"r", "o", "o", "m", " ", "s", "e", "r", "v", "i", "c", "e">>)
            \/ Mentions(suggestion.description,
                        <<"r", "e", "s", "t", "a", "u", "r", "a", "n", "t">>)
            \/ Mentions(suggestion.description, <<"b", "a", "r">>))
               => suggestion.returned = "Room Service & Meals etc"
        /\ suggestion.returned = "Incidentals"
               <=> ~\E term \in AllTerms : Mentions(suggestion.description, term)
        /\ suggestion.returned # IGNORE

(***************************************************************************)
(* C25.  In the pipeline, for an invoice that passed                        *)
(* validate_invoice_details and validate_categorization, whenever           *)
(* adjust_for_rounding rewrites an entry, the amount it moves is a rounding *)
(* residual: at most nights - 1 cents in absolute value.                    *)
(* The code moves the whole amount of the Ignore items onto the entry.      *)
(***************************************************************************)
C25_AdjustmentIsRoundingResidual ==
    (/\ AdjustRan
     /\ ms_expense_entries =
            calculate_daily_rates(consolidate_categories(invoice),
                                  invoice.check_in_date, invoice.check_out_date)
     /\ invoice_report.passed
     /\ categorization_report.passed
     /\ adjusted_entries # ms_expense_entries)
        => Abs(SumOfTotals(adjusted_entries) - SumOfTotals(ms_expense_entries))
               <= Cents(StayNights - 1)

(***************************************************************************)
(* C26.  No stage changes what it was passed: in every step the invoice     *)
(* keeps its value, the consolidated categories change only when            *)
(* consolidate_categories returns them (or the caller supplies them), the   *)
(* entries only when calculate_daily_rates returns them, and the adjusted   *)
(* entries only when adjust_for_rounding returns them; so each validator,   *)
(* consolidate_categories, calculate_daily_rates and adjust_for_rounding    *)
(* leaves its arguments holding the values they held before the call.       *)
(***************************************************************************)
C26_StagesLeaveTheirInputs ==
    [][/\ invoice' = invoice
       /\ pc # "Categorized" => consolidated' = consolidated
       /\ pc # "ConsolidationValidated" => ms_expense_entries' = ms_expense_entries
       /\ pc # "TotalsValidated" => adjusted_entries' = adjusted_entries]_vars

\* adjust_for_rounding returned a rewritten two-entry list for an invoice with
\* two consolidated categories, and the list passed to it is the one
\* calculate_daily_rates built
C26_Witness ==
    /\ Reached("EntriesValidated")
    /\ Len(consolidated) = 2
    /\ Len(ms_expense_entries) = 2
    /\ ms_expense_entries =
           calculate_daily_rates(consolidated, invoice.check_in_date,
                                 invoice.check_out_date)
    /\ consolidated = consolidate_categories(invoice)
    /\ adjusted_entries # ms_expense_entries
    /\ Len(adjusted_entries) = 2

\* the entries are the pipeline's own: consolidate_categories, then
\* calculate_daily_rates
PipelineEntries ==
    /\ consolidated = consolidate_categories(invoice)
    /\ ms_expense_entries =
           calculate_daily_rates(consolidated, invoice.check_in_date,
                                 invoice.check_out_date)

(***************************************************************************)
(* C27.  If validate_consolidation passes for the output of                 *)
(* consolidate_categories against the invoice total, then                   *)
(* adjust_for_rounding against that total leaves the entries of             *)
(* calculate_daily_rates unchanged, and validate_ms_expense_entries passes  *)
(* for them against the same total.                                         *)
(***************************************************************************)
C27_CheckpointsConsistent ==
    (/\ pc = "EntriesValidated"
     /\ consolidation_report.passed
     /\ PipelineEntries
     /\ AdjustRan
     /\ entries_report = validate_ms_expense_entries(adjusted_entries,
                                                      invoice.total_amount))
        => /\ adjusted_entries = ms_expense_entries
           /\ entries_report.passed

\* the consolidation check passed for two categories over a stay that does
\* not divide the recurring total
C27_Witness ==
    /\ pc = "EntriesValidated"
    /\ PipelineEntries
    /\ consolidation_report.passed
    /\ adjusted_entries = ms_expense_entries
    /\ Len(ms_expense_entries) = 2
    /\ \E k \in 1..2 :
           /\ ms_expense_entries[k].quantity = 3
           /\ ~WholeCents(ms_expense_entries[k].daily_rate)
    /\ entries_report.passed

\* every entry has a positive total, daily rate and quantity
AllPositive(entries) ==
    \A k \in 1..Len(entries) :
        /\ entries[k].total_amount > 0
        /\ entries[k].daily_rate > 0
        /\ entries[k].quantity > 0

(***************************************************************************)
(* C28.  For every non-empty list of entries with positive totals, daily    *)
(* rates and quantities, and every positive target, each entry returned by  *)
(* adjust_for_rounding still has a positive total and a positive daily      *)
(* rate.                                                                    *)
(* The code subtracts the whole excess from the largest entry, whatever is  *)
(* left of it.                                                              *)
(***************************************************************************)
C28_AdjustKeepsEntriesPositive ==
    (/\ AdjustRan
     /\ ms_expense_entries # <<>>
     /\ AllPositive(ms_expense_entries)
     /\ invoice.total_amount > 0)
        => \A k \in 1..Len(adjusted_entries) :
               /\ adjusted_entries[k].total_amount > 0
               /\ adjusted_entries[k].daily_rate > 0

\* the entries at the end of the pipeline for an invoice
final_entries(inv) ==
    adjust_for_rounding(
        calculate_daily_rates(consolidate_categories(inv), inv.check_in_date,
                              inv.check_out_date),
        inv.total_amount)

\* the total each category carries in a list of entries
CategoryTotals(entries) ==
    {<<entries[k].subcategory, entries[k].total_amount>> : k \in 1..Len(entries)}

(***************************************************************************)
(* C29.  The total each category carries in the final entries               *)
(* (consolidate_categories, calculate_daily_rates, adjust_for_rounding      *)
(* against the invoice total) is the same for any two invoices that differ  *)
(* only in the order of their line items, also when two categories have     *)
(* equal totals and an adjustment is applied.                               *)
(* The code puts the adjustment on whichever of the equal categories comes  *)
(* first among the line items.                                              *)
(***************************************************************************)
C29_FinalTotalsOrderIndependent ==
    (/\ pc = "RateAdjusted"
     /\ adjusted_entries = final_entries(invoice))
        => \A p \in Permutations(1..Len(invoice.line_items)) :
               CategoryTotals(final_entries(Reordered(invoice, p)))
                   = CategoryTotals(adjusted_entries)

\* the last call of the manager was this function
LastCall(name) == manager_call.name = name

(***************************************************************************)
(* C30.  In playwright_manager, after any sequence of start_playwright,     *)
(* connect_to_browser, set_current_page, cleanup_page, cleanup_browser and  *)
(* stop_playwright calls: a browser connection is held only while a         *)
(* Playwright instance is running; start_playwright on a running instance   *)
(* and connect_to_browser without an instance raise and leave the three     *)
(* handles unchanged; and after stop_playwright the instance, the           *)
(* connection and the current page are all cleared.                         *)
(***************************************************************************)
C30_ManagerHandlesConsistent ==
    /\ _browser_connection # NoHandle => _playwright_instance # NoHandle
    /\ (LastCall("start_playwright")
            /\ manager_call.before._playwright_instance # NoHandle)
           => manager_call.raised /\ handles = manager_call.before
    /\ (LastCall("connect_to_browser")
            /\ manager_call.before._playwright_instance = NoHandle)
           => manager_call.raised /\ handles = manager_call.before
    /\ LastCall("stop_playwright") =>
           /\ _playwright_instance = NoHandle
           /\ _browser_connection = NoHandle
           /\ _current_page = NoHandle

\* stop_playwright returned after an instance, a connection and a page were
\* all held
C30_Witness ==
    /\ LastCall("stop_playwright")
    /\ manager_call.before._playwright_instance # NoHandle
    /\ manager_call.before._browser_connection # NoHandle
    /\ manager_call.before._current_page # NoHandle
    /\ _playwright_instance = NoHandle

\* start_playwright raised on a running instance that holds a connection
C30_WitnessStartRaised ==
    /\ LastCall("start_playwright")
    /\ manager_call.raised
    /\ _playwright_instance # NoHandle
    /\ _browser_connection # NoHandle

\* connect_to_browser raised without an instance, with a page set
C30_WitnessConnectRaised ==
    /\ LastCall("connect_to_browser")
    /\ manager_call.raised
    /\ _playwright_instance = NoHandle
    /\ _current_page # NoHandle

====
